---- MODULE Spec2Model ----
(***************************************************************************)
(* Verification model of the async-graphql field resolution engine         *)
(* (src/src/resolver.rs): collect_fields turns a selection set into an     *)
(* ordered list of field futures, do_resolve drives them with              *)
(* try_join_all and builds the result object.                              *)
(***************************************************************************)
EXTENDS Integers, Sequences, FiniteSets, TLC

\* ------------------------------------------------------------------------
\* Bounds of the explored inputs
\* ------------------------------------------------------------------------
\* number of selection items in the selection set handed to do_resolve
MaxSel == 2

\* ------------------------------------------------------------------------
\* Selection tree (parser::ast::Selection), as consumed by collect_fields
\* ------------------------------------------------------------------------
NoName == ""

\* Selection::Field.  dir is the outcome of evaluating the item's
\* @skip/@include directives: "keep", "skip" or "error".
Field(name, alias, dir, sel) ==
    [kind |-> "Field", name |-> name, alias |-> alias, dir |-> dir,
     cond |-> NoName, sel |-> sel]

\* Selection::FragmentSpread
FragmentSpread(name, dir) ==
    [kind |-> "FragmentSpread", name |-> name, alias |-> NoName, dir |-> dir,
     cond |-> NoName, sel |-> <<>>]

\* Selection::InlineFragment; cond = NoName when there is no type condition
InlineFragment(cond, dir, sel) ==
    [kind |-> "InlineFragment", name |-> NoName, alias |-> NoName, dir |-> dir,
     cond |-> cond, sel |-> sel]

\* ------------------------------------------------------------------------
\* Errors (GqlError::Query { pos, path, err })
\* ------------------------------------------------------------------------
NoPath == [some |-> FALSE, trail |-> <<>>]
SomePath(trail) == [some |-> TRUE, trail |-> trail]

GqlError(err, name, object, path) ==
    [err |-> err, name |-> name, object |-> object, path |-> path]

NoError == GqlError("", NoName, NoName, NoPath)

\* ------------------------------------------------------------------------
\* Values (serde_json::Value): a scalar, or an object kept as the ordered
\* list of its (key, value) entries
\* ------------------------------------------------------------------------
Scalar(s) == [scalar |-> s, entries |-> <<>>]
Object(entries) == [scalar |-> NoName, entries |-> entries]

\* ------------------------------------------------------------------------
\* State
\* ------------------------------------------------------------------------
VARIABLES
    items,        \* ctx.items of the selection set handed to do_resolve
    fragments,    \* ctx.fragments: fragment name -> selection set
    extensions,   \* ctx.extensions: the active extensions, in call order
    pc,           \* position of do_resolve: "start", "join", "done"
    futures,      \* the Vec<BoxFieldFuture> of do_resolve, in push order
    result,       \* what do_resolve returned (GqlResult<serde_json::Value>)
    inc_resolve_id, \* the context's resolve-id counter
    log,          \* extension hook calls and resolver invocations, in order
    counter,      \* side effects performed by resolvers after a suspension
    preserve_order, \* the build of serde_json: TRUE when its Map keeps the
                  \* order of insertion (feature preserve_order), FALSE when
                  \* it is a BTreeMap (default features)
    \* -- type references (registry.rs, TypeName) --
    ref_a,        \* a type-reference string (the expectation of is_subtype)
    ref_b,        \* a second type-reference string (the candidate)
    ref_level,    \* the string handed to TypeName::create: ref_a, or an
                  \* inner string of it
    ref_shown,    \* what Display wrote for TypeName::create(ref_level)
    ref_subtype,  \* the is_subtype verdicts obtained so far: records
                  \* [self, sub, verdict]
    \* -- cache control hints (registry.rs, CacheControl) --
    cc_a,         \* a hint
    cc_b,         \* another hint
    cc_ab,        \* Some(cc_a after cc_a.merge(&cc_b)), None before the call
    cc_ba,        \* Some(cc_b after cc_b.merge(&cc_a)), None before the call
    \* -- schema registry (registry.rs, Registry) --
    types,        \* Registry.types: type name -> Type
    reg_stack,    \* the create_type calls in progress, outermost first:
                  \* [ty: the Rust type being built, next: the next nested
                  \* registration of its builder]
    invoked,      \* type name -> the Rust types whose builder create_type
                  \* invoked under that name, in call order
    sdl,          \* Some(what create_federation_sdl wrote), None before
    \* -- value validator (validation/utils.rs) --
    in_type,      \* the type reference a value is validated against
    in_value,     \* the value (GqlValue)
    in_result,    \* [called, reason]: whether is_valid_input_value was
                  \* called, and the Option<String> it returned
    \* -- guards and entity lookup (tests/guard.rs, derive/src/utils.rs) --
    gd_data,      \* the query's context data: [role, username], Options
    gd_target,    \* what the query selects: [kind, args, reps]: a field,
                  \* an entity finder or a subscription field, the
                  \* arguments of its attribute in the order of the text,
                  \* and for _entities the __typename of each
                  \* representation
    gd_result,    \* [status, error, list, bodies]: what the query
                  \* returned, the items of the _Entity list, and how often
                  \* the resolver body ran
    \* -- websocket forwarding loop (async-graphql-warp/src/lib.rs) --
    ws_client,    \* rx: [frames, pos, open, done]: the frames of the
                  \* client, how many of them rx has yielded, whether the
                  \* client may still send, whether rx has yielded None
    ws_conn,      \* srx: [msgs, pos, open]: the messages the subscription
                  \* connection produces, how many srx has yielded, whether
                  \* the connection may still produce
    ws_tx,        \* the text frames sent to the client, in order
    ws_stx,       \* the messages sent to the connection, in order
    ws_pc         \* where the forwarding loop is: "select" at select!,
                  \* "tx.send" and "stx.send" inside the await of a send
                  \* (the message taken from the stream is msgs[pos], the
                  \* frame is frames[pos]), "returned" afterwards, "idle"
                  \* when there is no websocket

resolver_vars == <<items, fragments, extensions, pc, futures, result,
                   inc_resolve_id, log, counter, preserve_order>>
typeref_vars == <<ref_a, ref_b, ref_level, ref_shown, ref_subtype>>
cache_vars == <<cc_a, cc_b, cc_ab, cc_ba>>
registry_vars == <<types, reg_stack, invoked, sdl>>
validator_vars == <<in_type, in_value, in_result>>
guard_vars == <<gd_data, gd_target, gd_result>>
ws_vars == <<ws_client, ws_conn, ws_tx, ws_stx, ws_pc>>
vars == <<resolver_vars, typeref_vars, cache_vars, registry_vars,
          validator_vars, guard_vars, ws_vars>>

\* the variables do_resolve never touches
outside_resolver == <<typeref_vars, cache_vars, registry_vars,
                      validator_vars,
        guard_vars, ws_vars>>
\* the variables the type-reference functions never touch
outside_typeref == <<resolver_vars, cache_vars, registry_vars,
                     validator_vars,
        guard_vars, ws_vars>>
\* the variables CacheControl::merge never touches
outside_cache == <<resolver_vars, typeref_vars, registry_vars,
                   validator_vars,
        guard_vars, ws_vars>>
\* the variables the Registry never touches
outside_registry == <<resolver_vars, typeref_vars, cache_vars,
                      validator_vars,
        guard_vars, ws_vars>>
\* the variables the validator never touches
outside_validator == <<resolver_vars, typeref_vars, cache_vars,
                       registry_vars,
        guard_vars, ws_vars>>

\* no type reference is under examination
NotShown == [shown |-> FALSE, text |-> ""]
TypeRefIdle ==
    /\ ref_a = ""
    /\ ref_b = ""
    /\ ref_level = ""
    /\ ref_shown = NotShown
    /\ ref_subtype = {}

\* impl Default for CacheControl
CacheControl(public, max_age) == [public |-> public, max_age |-> max_age]
CacheControl_default == CacheControl(TRUE, 0)

\* no hint is being merged
CacheIdle ==
    /\ cc_a = CacheControl_default
    /\ cc_b = CacheControl_default
    /\ cc_ab = {}
    /\ cc_ba = {}

\* HashMap::new()
EmptyMap == [k \in {} |-> k]

\* no schema is being built
RegistryIdle ==
    /\ types = EmptyMap
    /\ reg_stack = <<>>
    /\ invoked = EmptyMap
    /\ sdl = {}

\* GqlValue::Null
GqlValue_Null ==
    [kind |-> "Null", name |-> "", n |-> 0, elems |-> <<>>,
     values |-> EmptyMap]

\* no value is being validated
NotCalled == [called |-> FALSE, reason |-> {}]
ValidatorIdle ==
    /\ in_type = ""
    /\ in_value = GqlValue_Null
    /\ in_result = NotCalled

\* the variables the guarded resolvers never touch
outside_guard == <<resolver_vars, typeref_vars, cache_vars, registry_vars,
                   validator_vars, ws_vars>>
\* the variables the forwarding loop never touches
outside_ws == <<resolver_vars, typeref_vars, cache_vars, registry_vars,
                validator_vars, guard_vars>>

\* no guarded query is being executed
NoData == [role |-> {}, username |-> {}]
NoTarget == [kind |-> "", args |-> <<>>, reps |-> <<>>]
NotExecuted == [status |-> "none", error |-> NoError, list |-> <<>>,
                bodies |-> 0]
GuardIdle ==
    /\ gd_data = NoData
    /\ gd_target = NoTarget
    /\ gd_result = NotExecuted

\* no websocket is open
WsIdle ==
    /\ ws_client = [frames |-> <<>>, pos |-> 0, open |-> FALSE, done |-> FALSE]
    /\ ws_conn = [msgs |-> <<>>, pos |-> 0, open |-> FALSE]
    /\ ws_tx = <<>>
    /\ ws_stx = <<>>
    /\ ws_pc = "idle"

\* ------------------------------------------------------------------------
\* The schema under execution: Registry.types as (type -> field -> type
\* reference), and the resolvers of its two object types.
\* ------------------------------------------------------------------------
RootType == "Query"

registry_types ==
    [Query |-> [a |-> "Int!", slowOk |-> "Int!", fastErr |-> "Int!",
                slowErr |-> "Int!", obj |-> "MyObj!"],
     MyObj |-> [a |-> "Int!", slowOk |-> "Int!", fastErr |-> "Int!",
                slowErr |-> "Int!"]]

\* registry.types.get(T::type_name()).and_then(|ty| ty.field_by_name(name))
\* as an Option: the empty set or the singleton of the field's type
field_by_name(object, name) ==
    IF object \in DOMAIN registry_types /\ name \in DOMAIN registry_types[object]
    THEN {registry_types[object][name]}
    ELSE {}

\* T::type_name() and root.introspection_type_name() of an object root
type_name(root) == root
introspection_type_name(root) == root

\* ------------------------------------------------------------------------
\* Selection context helpers
\* ------------------------------------------------------------------------
\* ctx.is_skip(&directives): Ok(false), Ok(true) or Err
is_skip(selection) == selection.dir

\* ctx_field.result_name(): the alias when given, else the field name
result_name(field) == IF field.alias # NoName THEN field.alias ELSE field.name

\* ctx.with_selection_set(&selection_set): same path, other items
with_selection_set(ctx, selection_set) == [ctx EXCEPT !.items = selection_set]

\* path trail of ctx.with_field(field): the parent's trail extended by
\* the result name of the field
with_field_path(ctx, field) == Append(ctx.path, result_name(field))

\* ------------------------------------------------------------------------
\* Field futures (BoxFieldFuture)
\* ------------------------------------------------------------------------
\* st: "new" (never polled), "awaiting" (resolver suspended), "woken"
\* (resolver may continue), "nested" (awaiting the do_resolve of the field's
\* own selection set), "ok", "err" (completed), and dropped = TRUE once the
\* future was dropped before completing.
FieldFuture(fut, field, ctx, root, rid) ==
    [fut |-> fut, field |-> field, path |-> with_field_path(ctx, field),
     root |-> root, st |-> "new", dropped |-> FALSE, rid |-> rid,
     key |-> result_name(field), value |-> Scalar(NoName), error |-> NoError,
     sub |-> <<>>]

\* accumulator threaded through collect_fields: the GqlResult<()> it
\* returns, the futures vector and the resolve-id counter
CollectAcc(fs, rid) == [ok |-> TRUE, error |-> NoError, futures |-> fs, rid |-> rid]

Fail(acc, error) == [acc EXCEPT !.ok = FALSE, !.error = error]

RECURSIVE collect_fields(_, _, _)
RECURSIVE collect_items(_, _, _, _)

\* root.collect_inline_fields(name, ctx, futures) of an object type: the
\* fragment applies when the condition names the root's own type
collect_inline_fields(root, name, ctx, acc) ==
    IF name = type_name(root) THEN collect_fields(ctx, root, acc) ELSE acc

\* variant: the selection set is not checked for emptiness
collect_fields_unchecked(ctx, root, acc) == collect_items(ctx, root, 1, acc)

collect_fields(ctx, root, acc) ==
    IF Len(ctx.items) = 0
    THEN Fail(acc, GqlError("MustHaveSubFields", NoName, type_name(root), NoPath))
    ELSE collect_items(ctx, root, 1, acc)

\* Selection::Field named __typename: a future that is ready with the
\* root's introspection type name, under the result name of the field
push_typename(ctx, root, selection, acc) ==
    [acc EXCEPT
       !.rid = acc.rid + 1,
       !.futures = Append(acc.futures,
          [FieldFuture("typename", selection, ctx, root, acc.rid + 1)
             EXCEPT !.value = Scalar(introspection_type_name(root))])]

\* any other Selection::Field: the async block, not yet started
push_field(ctx, root, selection, acc) ==
    [acc EXCEPT
       !.futures = Append(acc.futures,
          FieldFuture("field", selection, ctx, root, 0))]

\* variant: __typename is dispatched like any other field
collect_field_dispatch_all(ctx, root, selection, acc) ==
    push_field(ctx, root, selection, acc)

collect_field(ctx, root, selection, acc) ==
    IF selection.name = "__typename"
    THEN push_typename(ctx, root, selection, acc)
    ELSE push_field(ctx, root, selection, acc)

\* variant: the futures of the fragment are put in front of the futures
\* collected so far
collect_fragment_spread_front(ctx, root, selection, acc) ==
    IF selection.name \in DOMAIN fragments
    THEN LET r == collect_fields(
                      with_selection_set(ctx, fragments[selection.name]),
                      root, [acc EXCEPT !.futures = <<>>])
         IN  [r EXCEPT !.futures = r.futures \o acc.futures]
    ELSE Fail(acc, GqlError("UnknownFragment", selection.name, NoName, NoPath))

\* variant: a spread of an unknown fragment contributes nothing
collect_fragment_spread_lenient(ctx, root, selection, acc) ==
    IF selection.name \in DOMAIN fragments
    THEN collect_fields(with_selection_set(ctx, fragments[selection.name]),
                        root, acc)
    ELSE acc

\* Selection::FragmentSpread
collect_fragment_spread(ctx, root, selection, acc) ==
    IF selection.name \in DOMAIN fragments
    THEN collect_fields(with_selection_set(ctx, fragments[selection.name]),
                        root, acc)
    ELSE Fail(acc, GqlError("UnknownFragment", selection.name, NoName, NoPath))

\* Selection::InlineFragment
collect_inline_fragment(ctx, root, selection, acc) ==
    IF selection.cond # NoName
    THEN collect_inline_fields(root, selection.cond,
                               with_selection_set(ctx, selection.sel), acc)
    ELSE collect_fields(with_selection_set(ctx, selection.sel), root, acc)

\* the for loop of collect_fields, from item i on
collect_items(ctx, root, i, acc) ==
    IF i > Len(ctx.items) THEN acc
    ELSE
    LET selection == ctx.items[i] IN
    IF is_skip(selection) = "error"
    THEN Fail(acc, GqlError("VarNotDefined", NoName, NoName, NoPath))
    ELSE IF is_skip(selection) = "skip"
    THEN collect_items(ctx, root, i + 1, acc)
    ELSE
    LET r == CASE selection.kind = "Field" ->
                    collect_field(ctx, root, selection, acc)
               [] selection.kind = "FragmentSpread" ->
                    collect_fragment_spread(ctx, root, selection, acc)
               [] selection.kind = "InlineFragment" ->
                    collect_inline_fragment(ctx, root, selection, acc)
    IN  IF r.ok THEN collect_items(ctx, root, i + 1, r) ELSE r

\* ------------------------------------------------------------------------
\* Effects of polling: the hook/resolver log, the resolve-id counter and
\* the resolvers' side-effect counter, threaded through one poll
\* ------------------------------------------------------------------------
Effects(l, rid, c) == [log |-> l, rid |-> rid, counter |-> c]

Event(ev, ext, rid, path) == [ev |-> ev, ext |-> ext, rid |-> rid, path |-> path]

\* extensions.iter().for_each(|e| e.resolve_field_start(&resolve_info))
RECURSIVE hooks(_, _, _, _, _)
hooks(ev, exts, i, rid, path) ==
    IF i > Len(exts) THEN <<>>
    ELSE <<Event(ev, exts[i], rid, path)>> \o hooks(ev, exts, i + 1, rid, path)

resolve_field_start(g, t, rid) ==
    [g EXCEPT !.log = g.log \o hooks("resolve_field_start", extensions, 1, rid, t.path)]

resolve_field_end(g, t) ==
    [g EXCEPT !.log = g.log \o hooks("resolve_field_end", extensions, 1, t.rid, t.path)]

\* impl Ord for str: the order of the bytes. The characters of the keys
\* of a result object, in the order of their codes
AsciiOrder ==
    "0123456789ABCDEFGHIJKLMNOPQRSTUVWXYZ_abcdefghijklmnopqrstuvwxyz"

char_code(c) ==
    CHOOSE i \in 1..Len(AsciiOrder) : SubSeq(AsciiOrder, i, i) = c

RECURSIVE str_lt(_, _)
str_lt(a, b) ==
    IF Len(b) = 0 THEN FALSE
    ELSE IF Len(a) = 0 THEN TRUE
    ELSE IF SubSeq(a, 1, 1) = SubSeq(b, 1, 1)
    THEN str_lt(SubSeq(a, 2, Len(a)), SubSeq(b, 2, Len(b)))
    ELSE char_code(SubSeq(a, 1, 1)) < char_code(SubSeq(b, 1, 1))

\* entries with kv put in before position i
insert_before(entries, i, kv) ==
    SubSeq(entries, 1, i - 1) \o <<kv>> \o SubSeq(entries, i, Len(entries))

\* serde_json::Map::insert, the map kept as the list of its entries in
\* iteration order. A key that is present keeps its position and takes the
\* new value. A new key goes to the end when the map keeps the order of
\* insertion, and to its place in the order of the keys when the map is a
\* BTreeMap. Which of the two the program is built with is the state
\* variable preserve_order.
\* variant: a key that is already in the map keeps its earlier value
RECURSIVE map_insert_keep_first(_, _, _)
map_insert_keep_first(entries, i, kv) ==
    IF i > Len(entries) THEN Append(entries, kv)
    ELSE IF entries[i][1] = kv[1] THEN entries
    ELSE IF ~preserve_order /\ str_lt(kv[1], entries[i][1])
    THEN insert_before(entries, i, kv)
    ELSE map_insert_keep_first(entries, i + 1, kv)

RECURSIVE map_insert(_, _, _)
map_insert(entries, i, kv) ==
    IF i > Len(entries) THEN Append(entries, kv)
    ELSE IF entries[i][1] = kv[1] THEN [entries EXCEPT ![i] = kv]
    ELSE IF ~preserve_order /\ str_lt(kv[1], entries[i][1])
    THEN insert_before(entries, i, kv)
    ELSE map_insert(entries, i + 1, kv)

\* serde_json::Map::from_iter(res): the entries of res inserted one by one
RECURSIVE Map_from_iter(_, _, _)
Map_from_iter(res, i, entries) ==
    IF i > Len(res) THEN entries
    ELSE Map_from_iter(res, i + 1, map_insert(entries, 1, res[i]))

\* dropping a vector of futures: every future that has not completed is
\* gone, together with the futures it owns
RECURSIVE drop(_)
drop(fs) ==
    [i \in 1..Len(fs) |->
        IF fs[i].st \in {"ok", "err"} THEN fs[i]
        ELSE [fs[i] EXCEPT !.dropped = TRUE, !.sub = drop(fs[i].sub)]]

\* ------------------------------------------------------------------------
\* The resolvers of the schema (root.resolve_field): what the resolver of a
\* field does when it is invoked
\*   "missing"  the field is not one of the type's resolvers
\*   "fast_ok" / "fast_err"   completes without suspending
\*   "slow_ok" / "slow_err"   suspends once, then performs a side effect
\*                            and completes
\*   "object"   yields an object of type MyObj, resolved by do_resolve over
\*              the field's own selection set
\* ------------------------------------------------------------------------
resolver(root, name) ==
    IF field_by_name(type_name(root), name) = {} THEN "missing"
    ELSE CASE name = "a" -> "fast_ok"
           [] name = "slowOk" -> "slow_ok"
           [] name = "fastErr" -> "fast_err"
           [] name = "slowErr" -> "slow_err"
           [] name = "obj" -> "object"

\* variant: the outputs in the order of completion (the futures that
\* complete without suspending first)
outputs_as_completed(fs) ==
    LET slow(t) == t.fut = "field"
                   /\ resolver(t.root, t.field.name) \in {"slow_ok", "slow_err"}
        fast(t) == ~slow(t)
        ordered == SelectSeq(fs, fast) \o SelectSeq(fs, slow)
    IN  [i \in 1..Len(fs) |-> <<ordered[i].key, ordered[i].value>>]

\* the Vec<(String, Value)> that try_join_all yields: the outputs of the
\* futures in the order of the futures
outputs(fs) == [i \in 1..Len(fs) |-> <<fs[i].key, fs[i].value>>]

\* the error a failing resolver returns: a FieldError that carries the
\* path of its context
FieldError(t) == GqlError("FieldError", t.field.name, NoName, SomePath(t.path))

\* variant: the engine puts the path of the field on its error
FieldNotFound_with_path(t) ==
    GqlError("FieldNotFound", t.field.name, type_name(t.root), SomePath(t.path))

FieldNotFound(t) ==
    GqlError("FieldNotFound", t.field.name, type_name(t.root), NoPath)

Ready(t, g, r) == [t |-> t, g |-> g, r |-> r]

\* the poll of the future of t returned Poll::Ready
completed(g, t, r) ==
    [g EXCEPT !.log = Append(g.log, Event("ready_" \o r, NoName, t.rid, t.path))]

RECURSIVE poll(_, _)
RECURSIVE try_join_all(_, _, _, _)
RECURSIVE try_join_all_wait(_, _, _, _)
RECURSIVE try_join_all_lenient(_, _, _, _)
RECURSIVE do_resolve_nested(_, _)

\* Ok arm of the field future after root.resolve_field returned a value:
\* the resolve_field_end hooks, then Ok((field_name, value))
field_ok(t, g, value) ==
    Ready([t EXCEPT !.st = "ok", !.value = value],
          completed(IF extensions # <<>> THEN resolve_field_end(g, t) ELSE g,
                    t, "ok"),
          "ok")

\* Err arm: the ? operator returns the error as it is
field_err(t, g, error) ==
    Ready([t EXCEPT !.st = "err", !.error = error], completed(g, t, "err"), "err")

\* root.resolve_field(&ctx_field), first poll of the resolver
resolve_field(t, g0) ==
    LET g == [g0 EXCEPT !.log = Append(g0.log,
                  Event("resolve_field", NoName, t.rid, t.path))]
        kind == resolver(t.root, t.field.name)
    IN  CASE kind = "missing" -> field_err(t, g, FieldNotFound(t))
          [] kind = "fast_ok" -> field_ok(t, g, Scalar(t.field.name))
          [] kind = "fast_err" -> field_err(t, g, FieldError(t))
          [] kind \in {"slow_ok", "slow_err"} ->
                Ready([t EXCEPT !.st = "awaiting"], g, "pending")
          [] kind = "object" -> do_resolve_nested(t, g)

\* the do_resolve that an object-valued field runs over its own selection
\* set, with the field's object as root
do_resolve_nested(t, g) ==
    IF t.st # "nested"
    THEN LET c == collect_fields([items |-> t.field.sel, path |-> t.path],
                                 "MyObj", CollectAcc(<<>>, g.rid))
         IN  IF ~c.ok THEN field_err(t, [g EXCEPT !.rid = c.rid], c.error)
             ELSE do_resolve_nested(
                      [t EXCEPT !.st = "nested", !.sub = c.futures],
                      [g EXCEPT !.rid = c.rid])
    ELSE LET j == try_join_all(t.sub, 1, g, FALSE)
         IN  CASE j.r = "pending" ->
                    Ready([t EXCEPT !.sub = j.futures], j.g, "pending")
               [] j.r = "err" ->
                    field_err([t EXCEPT !.sub = j.futures], j.g, j.error)
               [] j.r = "ok" ->
                    field_ok([t EXCEPT !.sub = j.futures], j.g,
                             Object(Map_from_iter(outputs(j.futures), 1, <<>>)))

\* variant: the registry is not consulted before the hooks and the resolver
start_field_no_lookup(t, g) ==
    LET rid == g.rid + 1
        t1 == [t EXCEPT !.rid = rid]
        g1 == [g EXCEPT !.rid = rid]
    IN  IF extensions # <<>>
        THEN resolve_field(t1, resolve_field_start(g1, t1, rid))
        ELSE resolve_field(t1, g1)

\* first poll of the async block of a field: ctx.with_field(field), then
\* with active extensions the lookup of the return type in the registry
\* and the resolve_field_start hooks, then root.resolve_field
start_field(t, g) ==
    LET rid == g.rid + 1
        t1 == [t EXCEPT !.rid = rid]
        g1 == [g EXCEPT !.rid = rid]
    IN  IF extensions # <<>>
        THEN IF field_by_name(type_name(t.root), t.field.name) = {}
             THEN field_err(t1, g1, FieldNotFound(t1))
             ELSE resolve_field(t1, resolve_field_start(g1, t1, rid))
        ELSE resolve_field(t1, g1)

\* one poll of a field future (resolver.rs: the future::ok of __typename,
\* or the async block of a field)
poll(t, g) ==
    CASE t.fut = "typename" ->
            Ready([t EXCEPT !.st = "ok"], completed(g, t, "ok"), "ok")
      [] t.fut = "field" /\ t.st = "new" -> start_field(t, g)
      [] t.fut = "field" /\ t.st = "awaiting" -> Ready(t, g, "pending")
      [] t.fut = "field" /\ t.st = "woken" ->
            LET g1 == [g EXCEPT !.counter = g.counter + 1]
            IN  IF resolver(t.root, t.field.name) = "slow_ok"
                THEN field_ok(t, g1, Scalar(t.field.name))
                ELSE field_err(t, g1, FieldError(t))
      [] t.fut = "field" /\ t.st = "nested" -> do_resolve_nested(t, g)

\* variant (join_all, then the first Err in the order of the futures):
\* an Err does not end the poll, every element is driven to completion
try_join_all_wait(fs, i, g, pending) ==
    IF i > Len(fs)
    THEN IF pending
         THEN [futures |-> fs, g |-> g, r |-> "pending", error |-> NoError]
         ELSE IF \E k \in 1..Len(fs) : fs[k].st = "err"
         THEN LET k == CHOOSE k \in 1..Len(fs) :
                          /\ fs[k].st = "err"
                          /\ \A m \in 1..(k - 1) : fs[m].st # "err"
              IN  [futures |-> fs, g |-> g, r |-> "err", error |-> fs[k].error]
         ELSE [futures |-> fs, g |-> g, r |-> "ok", error |-> NoError]
    ELSE IF fs[i].st \in {"ok", "err"}
    THEN try_join_all_wait(fs, i + 1, g, pending)
    ELSE LET p == poll(fs[i], g)
         IN  try_join_all_wait([fs EXCEPT ![i] = p.t], i + 1, p.g,
                               pending \/ p.r = "pending")

\* variant: an Err of an element is swallowed, the element counts as done
try_join_all_lenient(fs, i, g, pending) ==
    IF i > Len(fs)
    THEN [futures |-> fs, g |-> g, r |-> IF pending THEN "pending" ELSE "ok",
          error |-> NoError]
    ELSE IF fs[i].st \in {"ok", "err"}
    THEN try_join_all_lenient(fs, i + 1, g, pending)
    ELSE LET p == poll(fs[i], g)
         IN  try_join_all_lenient([fs EXCEPT ![i] = p.t], i + 1, p.g,
                                  pending \/ p.r = "pending")

\* one poll of futures::future::try_join_all(futures): the elements that
\* are not done are polled in order; the first Err ends the poll and drops
\* every element; when no element is pending the outputs are returned
try_join_all(fs, i, g, pending) ==
    IF i > Len(fs)
    THEN [futures |-> fs, g |-> g, r |-> IF pending THEN "pending" ELSE "ok",
          error |-> NoError]
    ELSE IF fs[i].st = "ok"
    THEN try_join_all(fs, i + 1, g, pending)
    ELSE LET p == poll(fs[i], g)
         IN  IF p.r = "err"
             THEN [futures |-> drop([fs EXCEPT ![i] = p.t]), g |-> p.g,
                   r |-> "err", error |-> p.t.error]
             ELSE try_join_all([fs EXCEPT ![i] = p.t], i + 1, p.g,
                               pending \/ p.r = "pending")

\* ------------------------------------------------------------------------
\* Suspended resolvers and their wake-up
\* ------------------------------------------------------------------------
\* index paths of the futures whose resolver is suspended
RECURSIVE awaiting(_)
awaiting(fs) ==
    UNION { (IF fs[i].st = "awaiting" THEN {<<i>>} ELSE {})
            \cup (IF fs[i].st = "nested"
                  THEN { <<i>> \o q : q \in awaiting(fs[i].sub) } ELSE {})
            : i \in 1..Len(fs) }

RECURSIVE woken(_)
woken(fs) ==
    \E i \in 1..Len(fs) :
        \/ fs[i].st = "woken"
        \/ fs[i].st = "nested" /\ woken(fs[i].sub)

RECURSIVE wake(_, _)
wake(fs, p) ==
    IF Len(p) = 1 THEN [fs EXCEPT ![p[1]].st = "woken"]
    ELSE [fs EXCEPT ![p[1]].sub = wake(fs[p[1]].sub, Tail(p))]

\* ------------------------------------------------------------------------
\* Inputs: the selection sets, fragment maps and extension lists explored
\* ------------------------------------------------------------------------
RECURSIVE SeqsUpTo(_, _)
SeqsUpTo(S, n) ==
    IF n = 0 THEN {<<>>}
    ELSE LET shorter == SeqsUpTo(S, n - 1)
         IN  shorter \cup { Append(q, x) : q \in shorter, x \in S }

PlainField(name) == Field(name, NoName, "keep", <<>>)

\* the extension lists: none, or two extensions
ExtensionLists == { <<>>, <<"e1", "e2">> }

\* the selection sets used as body of fragment F, as body of an inline
\* fragment and as selection set of the object field obj
SubSelections ==
    { <<>>,
      <<PlainField("slowOk"), PlainField("a")>>,
      <<PlainField("slowOk"), PlainField("fastErr")>>,
      <<PlainField("__typename"), PlainField("slowErr")>>,
      <<PlainField("a"), PlainField("nofield")>>,
      <<PlainField("slowOk"), Field("a", NoName, "error", <<>>)>> }

\* items that carry no selection set of their own; G is a fragment name
\* that the fragment map does not hold
LeafItems ==
    { PlainField("a"), PlainField("slowOk"), PlainField("fastErr"),
      PlainField("slowErr"), PlainField("nofield"),
      PlainField("__typename"),
      Field("__typename", "t", "keep", <<>>),
      Field("__typename", NoName, "skip", <<>>),
      Field("a", "slowOk", "keep", <<>>),
      Field("a", NoName, "error", <<>>),
      FragmentSpread("G", "keep"), FragmentSpread("G", "skip") }

\* items that use the selection set sub
SubUsers(sub) ==
    { FragmentSpread("F", "keep"),
      InlineFragment(NoName, "keep", sub),
      InlineFragment("Query", "keep", sub),
      InlineFragment("MyObj", "keep", sub),
      Field("obj", NoName, "keep", sub) }

UsesSub(sel, sub) == \E i \in 1..Len(sel) : sel[i] \in SubUsers(sub)

Init ==
    /\ \E sub \in SubSelections :
          /\ fragments = [F |-> sub]
          /\ items \in SeqsUpTo(LeafItems \cup SubUsers(sub), MaxSel)
          /\ sub # <<>> => UsesSub(items, sub)
    /\ extensions \in ExtensionLists
    /\ preserve_order \in BOOLEAN
    /\ pc = "start"
    /\ futures = <<>>
    /\ result = [status |-> "none", value |-> Scalar(NoName), error |-> NoError]
    /\ inc_resolve_id = 0
    /\ log = <<>>
    /\ counter = 0
    /\ TypeRefIdle
    /\ CacheIdle
    /\ RegistryIdle
    /\ ValidatorIdle
    /\ GuardIdle
    /\ WsIdle

\* ------------------------------------------------------------------------
\* do_resolve
\* ------------------------------------------------------------------------
Ok(value) == [status |-> "ok", value |-> value, error |-> NoError]
Err(error) == [status |-> "err", value |-> Scalar(NoName), error |-> error]

\* variant: the futures are polled as they are collected, so that the ones
\* collected before a failing item have been started when
\* collect_fields returns its error
Collect_eager ==
    /\ pc = "start"
    /\ LET c == collect_fields([items |-> items, path |-> <<>>], RootType,
                               CollectAcc(<<>>, inc_resolve_id))
           j == try_join_all(c.futures, 1,
                             Effects(log, c.rid, counter), FALSE)
       IN  IF c.ok
           THEN /\ pc' = "join"
                /\ futures' = c.futures
                /\ inc_resolve_id' = c.rid
                /\ UNCHANGED <<result, log, counter>>
           ELSE /\ pc' = "done"
                /\ futures' = drop(j.futures)
                /\ result' = Err(c.error)
                /\ inc_resolve_id' = j.g.rid
                /\ log' = j.g.log
                /\ counter' = j.g.counter
    /\ UNCHANGED <<items, fragments, extensions, preserve_order>>
    /\ UNCHANGED outside_resolver

\* let mut futures = Vec::new(); collect_fields(ctx, root, &mut futures)?;
Collect ==
    /\ pc = "start"
    /\ LET c == collect_fields([items |-> items, path |-> <<>>], RootType,
                               CollectAcc(<<>>, inc_resolve_id))
       IN  /\ inc_resolve_id' = c.rid
           /\ IF c.ok
              THEN /\ pc' = "join"
                   /\ futures' = c.futures
                   /\ UNCHANGED result
              ELSE /\ pc' = "done"
                   /\ futures' = drop(c.futures)
                   /\ result' = Err(c.error)
    /\ UNCHANGED <<items, fragments, extensions, log, counter,
                   preserve_order>>
    /\ UNCHANGED outside_resolver

\* try_join_all has to be polled: at first, and after a wake-up
NeedsPoll ==
    \/ futures = <<>>
    \/ \E i \in 1..Len(futures) : futures[i].st = "new"
    \/ woken(futures)

\* one poll of  try_join_all(futures).await?  and, when it is ready,
\* Map::from_iter(res) and the return of do_resolve
Poll ==
    /\ pc = "join"
    /\ NeedsPoll
    /\ LET j == try_join_all(futures, 1,
                             Effects(log, inc_resolve_id, counter), FALSE)
       IN  /\ futures' = j.futures
           /\ log' = j.g.log
           /\ inc_resolve_id' = j.g.rid
           /\ counter' = j.g.counter
           /\ CASE j.r = "pending" -> UNCHANGED <<pc, result>>
                [] j.r = "err" -> pc' = "done" /\ result' = Err(j.error)
                [] j.r = "ok" ->
                     /\ pc' = "done"
                     /\ result' = Ok(Object(
                            Map_from_iter(outputs(j.futures), 1, <<>>)))
    /\ UNCHANGED <<items, fragments, extensions, preserve_order>>
    /\ UNCHANGED outside_resolver

\* the event a suspended resolver waits for arrives
Wake ==
    /\ pc = "join"
    /\ \E p \in awaiting(futures) : futures' = wake(futures, p)
    /\ UNCHANGED <<items, fragments, extensions, pc, result, inc_resolve_id,
                   log, counter, preserve_order>>
    /\ UNCHANGED outside_resolver

Next == Collect \/ Poll \/ Wake

Spec == Init /\ [][Next]_vars

\* ========================================================================
\* Properties of the resolution engine
\* ========================================================================
\* every future of a futures vector, at any nesting depth
RECURSIVE all_tasks(_)
all_tasks(fs) ==
    UNION { {fs[i]} \cup all_tasks(fs[i].sub) : i \in 1..Len(fs) }

\* the outcome of collect_fields on the selection set given to do_resolve
Collected ==
    collect_fields([items |-> items, path |-> <<>>], RootType, CollectAcc(<<>>, 0))

Keys(entries) == [i \in 1..Len(entries) |-> entries[i][1]]

TaskKeys(fs) == [i \in 1..Len(fs) |-> fs[i].key]

\* a list of keys without the repetitions of a key
RECURSIVE FirstOccurrences(_)
FirstOccurrences(keys) ==
    IF keys = <<>> THEN <<>>
    ELSE LET front == FirstOccurrences(SubSeq(keys, 1, Len(keys) - 1))
             last == keys[Len(keys)]
         IN  IF \E i \in 1..Len(front) : front[i] = last
             THEN front ELSE Append(front, last)

\* position in the log of the completion of the future with resolve id rid
\* (0 when it has not completed)
ReadyAt(rid) ==
    IF \E k \in 1..Len(log) : log[k].rid = rid /\ log[k].ev \in {"ready_ok", "ready_err"}
    THEN CHOOSE k \in 1..Len(log) :
            log[k].rid = rid /\ log[k].ev \in {"ready_ok", "ready_err"}
    ELSE 0

\* the value of the last future of fs with the key key
LastValue(fs, key) ==
    LET last == CHOOSE i \in 1..Len(fs) :
                   fs[i].key = key /\ \A j \in (i + 1)..Len(fs) : fs[j].key # key
    IN  fs[last].value

\* C1: when every field task succeeds, the keys of the object that
\* do_resolve returns are in the order in which collect_fields produced the
\* tasks, whatever the order in which the tasks completed; the same holds
\* for the object of a nested selection set. It holds when serde_json keeps
\* the order of insertion and fails when its Map is a BTreeMap, where the
\* keys come out in the order of their bytes.
C1_KeysInTaskOrder ==
    /\ (pc = "done" /\ result.status = "ok") =>
          Keys(result.value.entries) = FirstOccurrences(TaskKeys(futures))
    /\ \A t \in all_tasks(futures) :
          (t.st = "ok" /\ t.sub # <<>>) =>
             Keys(t.value.entries) = FirstOccurrences(TaskKeys(t.sub))

\* C2: when a task fails, do_resolve returns the error of the task whose
\* failure completed first: no other task of the selection set has failed,
\* the siblings that had not completed are dropped instead of awaited, and
\* nothing runs after the failure.
C2_FirstErrorAborts ==
    (pc = "done" /\ result.status = "err" /\ Collected.ok) =>
        \E i \in 1..Len(futures) :
           /\ futures[i].st = "err"
           /\ result.error = futures[i].error
           /\ \A j \in 1..Len(futures) :
                 j # i => (futures[j].st = "ok" \/ futures[j].dropped)
           /\ log[Len(log)].ev = "ready_err"
           /\ log[Len(log)].rid = futures[i].rid

\* C2 witness: the error returned is the one of a later-declared task while
\* an earlier-declared task that would fail too was still suspended
C2_Witness ==
    /\ pc = "done" /\ result.status = "err"
    /\ \E i, j \in 1..Len(futures) :
          /\ i < j
          /\ futures[j].st = "err" /\ result.error = futures[j].error
          /\ futures[i].st = "awaiting" /\ futures[i].dropped
          /\ resolver(futures[i].root, futures[i].field.name) = "slow_err"

SlowOkFastErr == <<PlainField("slowOk"), PlainField("fastErr")>>

\* C3: for { slowOk fastErr } the side effect that slowOk performs after
\* its suspension point never happens, slowOk never completes, and the
\* result is the error of fastErr.
C3_SlowOkNeverObserved ==
    items = SlowOkFastErr =>
        /\ counter = 0
        /\ \A i \in 1..Len(futures) :
              futures[i].key = "slowOk" => futures[i].st \in {"new", "awaiting"}
        /\ pc = "done" =>
              /\ result = Err(GqlError("FieldError", "fastErr", NoName,
                                       SomePath(<<"fastErr">>)))
              /\ futures[1].dropped

\* C3 witness: do_resolve has returned while slowOk was suspended
C3_Witness ==
    /\ items = SlowOkFastErr
    /\ pc = "done"
    /\ futures[1].st = "awaiting" /\ futures[1].dropped
    /\ \E k \in 1..Len(log) : log[k].ev = "resolve_field" /\ log[k].path = <<"slowOk">>

\* C4: do_resolve returns either an object, and then every task produced by
\* collect_fields has succeeded and the object holds, under the key of each
\* task, the value of the (last) task with that key and nothing else; or an
\* error and no value at all, also when siblings had already succeeded.
C4_ObjectOrError ==
    pc = "done" =>
        \/ /\ result.status = "ok"
           /\ result.error = NoError
           /\ \A i \in 1..Len(futures) : futures[i].st = "ok"
           /\ \A i \in 1..Len(futures) :
                 \E k \in 1..Len(result.value.entries) :
                    result.value.entries[k] =
                       <<futures[i].key, LastValue(futures, futures[i].key)>>
           /\ \A k \in 1..Len(result.value.entries) :
                 \E i \in 1..Len(futures) :
                    result.value.entries[k][1] = futures[i].key
           /\ Len(result.value.entries) = Cardinality({ futures[i].key : i \in 1..Len(futures) })
        \/ /\ result.status = "err"
           /\ result.error # NoError
           /\ result.value = Scalar(NoName)
           /\ Collected.ok => \E i \in 1..Len(futures) : futures[i].st = "err"

\* C4 witness: an error was returned although a sibling had completed
\* with a value
C4_Witness ==
    /\ pc = "done" /\ result.status = "err"
    /\ \E i \in 1..Len(futures) :
          futures[i].st = "ok" /\ futures[i].fut = "field"

\* the resolver of the field of t has been invoked
Invoked(t) ==
    \E k \in 1..Len(log) : log[k].ev = "resolve_field" /\ log[k].rid = t.rid

\* t is a task of the selection set given to do_resolve, or of the
\* selection set of one of its object fields, and its path is the trail of
\* result keys that leads to it
OnTrail(t) ==
    \/ \E i \in 1..Len(futures) : futures[i] = t /\ t.path = <<t.key>>
    \/ \E i \in 1..Len(futures) : \E j \in 1..Len(futures[i].sub) :
          futures[i].sub[j] = t /\ t.path = <<futures[i].key, t.key>>

EngineErrors == {"MustHaveSubFields", "UnknownFragment", "FieldNotFound"}

\* C5 as stated: every error that do_resolve returns carries a path trail.
C5_EveryErrorHasPath ==
    (pc = "done" /\ result.status = "err") => result.error.path.some

\* C5: every error that do_resolve returns is the single error raised at
\* its origin, passed up unchanged through every nesting level: the error
\* of a field resolver carries the trail of result keys from the root to
\* its field, the errors raised by the engine itself (MustHaveSubFields,
\* UnknownFragment, FieldNotFound) carry no path.
C5_ErrorPassedUnchanged ==
    (pc = "done" /\ result.status = "err") =>
        \/ /\ result.error.err = "FieldError"
           /\ \E t \in all_tasks(futures) :
                 /\ t.st = "err" /\ t.sub = <<>> /\ Invoked(t)
                 /\ result.error = t.error
                 /\ result.error.name = t.field.name
                 /\ result.error.path = SomePath(t.path)
                 /\ OnTrail(t)
        \/ /\ result.error.err \in EngineErrors
           /\ result.error.path = NoPath
        \/ result.error.err = "VarNotDefined"

\* C5 witness: the resolver of fastErr inside obj failed and do_resolve
\* returned its error with the trail obj, fastErr
C5_Witness ==
    /\ pc = "done"
    /\ result = Err(GqlError("FieldError", "fastErr", NoName,
                             SomePath(<<"obj", "fastErr">>)))

\* collect_fields reaches item k of the selection set given to do_resolve
Reaches(k) ==
    /\ k \in 1..Len(items)
    /\ k > 1 =>
          collect_fields([items |-> SubSeq(items, 1, k - 1), path |-> <<>>],
                         RootType, CollectAcc(<<>>, 0)).ok

\* item k is a kept fragment spread or inline fragment through which
\* collect_fields is called on an empty selection set with the same root
EntersEmpty(k) ==
    /\ items[k].dir = "keep"
    /\ \/ /\ items[k].kind = "FragmentSpread"
          /\ items[k].name \in DOMAIN fragments
          /\ fragments[items[k].name] = <<>>
       \/ /\ items[k].kind = "InlineFragment"
          /\ items[k].cond \in {NoName, RootType}
          /\ items[k].sel = <<>>

MustHaveSubFields(object) == GqlError("MustHaveSubFields", NoName, object, NoPath)

\* C6: collect_fields fails with MustHaveSubFields, carrying the type name
\* of its root, exactly when the selection set of its context is empty: the
\* set given to do_resolve, a set reached through a fragment spread or an
\* inline fragment, or the set of an object field; a non-empty set whose
\* items are all skipped gives the empty object.
C6_EmptySelection ==
    /\ (pc = "done" /\ items = <<>>) => result = Err(MustHaveSubFields(RootType))
    /\ \A k \in 1..Len(items) :
          (pc = "done" /\ Reaches(k) /\ EntersEmpty(k)) =>
              result = Err(MustHaveSubFields(RootType))
    /\ (pc = "done" /\ result.error.err = "MustHaveSubFields") =>
          \/ /\ result.error = MustHaveSubFields(RootType)
             /\ items = <<>> \/ \E k \in 1..Len(items) : EntersEmpty(k)
          \/ /\ result.error = MustHaveSubFields("MyObj")
             /\ \E i \in 1..Len(futures) :
                   /\ futures[i].st = "err"
                   /\ resolver(futures[i].root, futures[i].field.name) = "object"
                   /\ futures[i].field.sel = <<>>
                   /\ Invoked(futures[i])
    /\ (pc = "done" /\ items # <<>>
          /\ \A k \in 1..Len(items) : items[k].dir = "skip") =>
          result = Ok(Object(<<>>))

\* C6 witness: the empty selection set was reached through the spread of
\* fragment F, after a field had been collected
C6_Witness ==
    /\ pc = "done"
    /\ Len(items) = 2
    /\ items[1] = PlainField("a")
    /\ items[2] = FragmentSpread("F", "keep")
    /\ fragments["F"] = <<>>
    /\ result = Err(MustHaveSubFields(RootType))

\* C7: a kept field named __typename gives a future that is ready with the
\* type name of its root under the field's alias, or under __typename
\* without alias; the future never suspends, no extension hook is called
\* for it and the root's resolver is not invoked for it; a selection set
\* of __typename fields only resolves to an object.
C7_Typename ==
    /\ \A t \in all_tasks(futures) :
          t.field.name = "__typename" =>
             /\ t.fut = "typename"
             /\ t.key = (IF t.field.alias # NoName THEN t.field.alias
                         ELSE "__typename")
             /\ t.value = Scalar(t.root)
             /\ t.st \in {"new", "ok"}
             /\ \A k \in 1..Len(log) :
                   log[k].rid = t.rid => log[k].ev = "ready_ok"
    /\ (pc # "start" /\ Collected.ok) =>
          \A k \in 1..Len(items) :
             (items[k].kind = "Field" /\ items[k].name = "__typename"
                /\ items[k].dir = "keep") =>
                 \E i \in 1..Len(futures) :
                    futures[i].field = items[k] /\ futures[i].root = RootType
    /\ (pc = "done" /\ result.status = "ok") =>
          \A i \in 1..Len(futures) :
             (futures[i].fut = "typename"
                /\ \A j \in (i + 1)..Len(futures) : futures[j].key # futures[i].key) =>
                 \E k \in 1..Len(result.value.entries) :
                    result.value.entries[k] = <<futures[i].key, Scalar(RootType)>>
    /\ (pc = "done" /\ Collected.ok
          /\ \A i \in 1..Len(futures) : futures[i].field.name = "__typename") =>
          result.status = "ok"

\* C7 witness: with active extensions, { t: __typename __typename } has
\* resolved to an object and neither a hook nor a resolver was called
C7_Witness ==
    /\ pc = "done"
    /\ extensions # <<>>
    /\ result = Ok(Object(<< <<"t", Scalar("Query")>>,
                             <<"__typename", Scalar("Query")>> >>))
    /\ \A k \in 1..Len(log) : log[k].ev = "ready_ok"

\* the selection set with the fields of every kept fragment spread and of
\* every kept inline fragment without type condition written in place
RECURSIVE Flatten(_)
Flatten(sel) ==
    IF sel = <<>> THEN <<>>
    ELSE LET h == Head(sel)
             rest == Flatten(Tail(sel))
         IN  IF /\ h.dir = "keep" /\ h.kind = "FragmentSpread"
                /\ h.name \in DOMAIN fragments /\ fragments[h.name] # <<>>
             THEN Flatten(fragments[h.name]) \o rest
             ELSE IF /\ h.dir = "keep" /\ h.kind = "InlineFragment"
                     /\ h.cond = NoName /\ h.sel # <<>>
             THEN Flatten(h.sel) \o rest
             ELSE <<h>> \o rest

CollectedFlat ==
    collect_fields([items |-> Flatten(items), path |-> <<>>], RootType,
                   CollectAcc(<<>>, 0))

RECURSIVE wake_all(_)
wake_all(fs) ==
    [i \in 1..Len(fs) |->
        IF fs[i].st = "awaiting" THEN [fs[i] EXCEPT !.st = "woken"]
        ELSE [fs[i] EXCEPT !.sub = wake_all(fs[i].sub)]]

\* the futures fs driven to the end, every suspended resolver being woken
\* between two polls
RECURSIVE run_all(_, _)
run_all(fs, g) ==
    LET j == try_join_all(fs, 1, g, FALSE)
    IN  IF j.r = "pending" THEN run_all(wake_all(j.futures), j.g) ELSE j

\* C8: a selection set with fragment spreads and inline fragments without
\* type condition gives the same tasks in the same order, and the same
\* result object, as the selection set with the fragments' fields written
\* in place of the spreads.
C8_FragmentsFlatten ==
    /\ (pc = "join" /\ log = <<>>) =>
          /\ CollectedFlat.ok
          /\ futures = CollectedFlat.futures
    /\ (pc = "done" /\ ~Collected.ok) =>
          /\ ~CollectedFlat.ok
          /\ result = Err(CollectedFlat.error)
    /\ (pc = "done" /\ result.status = "ok") =>
          LET flat == run_all(CollectedFlat.futures,
                              Effects(<<>>, CollectedFlat.rid, 0))
          IN  /\ flat.r = "ok"
              /\ result.value = Object(Map_from_iter(outputs(flat.futures), 1, <<>>))

\* C8 witness: a selection set with a field and then the spread of a
\* fragment of two fields has resolved to an object of three keys
C8_Witness ==
    /\ pc = "done" /\ result.status = "ok"
    /\ Len(items) = 2
    /\ items[1].kind = "Field"
    /\ items[2] = FragmentSpread("F", "keep")
    /\ Len(fragments["F"]) = 2
    /\ Flatten(items) = <<items[1]>> \o fragments["F"]
    /\ Len(result.value.entries) = 3

UnknownFragment(name) == GqlError("UnknownFragment", name, NoName, NoPath)

\* C9: a kept spread of a fragment that the fragment map does not hold
\* makes collect_fields fail with UnknownFragment and do_resolve return
\* that error, before any task is started; a skipped spread of an unknown
\* fragment raises no error.
C9_UnknownFragment ==
    /\ \A k \in 1..Len(items) :
          (pc = "done" /\ Reaches(k) /\ items[k].kind = "FragmentSpread"
             /\ items[k].dir = "keep" /\ items[k].name \notin DOMAIN fragments) =>
              /\ result = Err(UnknownFragment(items[k].name))
              /\ log = <<>>
    /\ (\A k \in 1..Len(items) :
           (items[k].kind = "FragmentSpread" /\ items[k].name \notin DOMAIN fragments)
              => items[k].dir = "skip") =>
          result.error.err # "UnknownFragment"
    /\ (pc = "done" /\ \E k \in 1..Len(items) :
           items[k] = FragmentSpread("G", "skip")
           /\ \A m \in 1..Len(items) : items[m].dir = "skip") =>
          result = Ok(Object(<<>>))

\* C9 witness: the unknown fragment G is spread after a field, and
\* do_resolve has returned UnknownFragment
C9_Witness ==
    /\ pc = "done"
    /\ Len(items) = 2
    /\ items[1] = PlainField("slowOk")
    /\ items[2] = FragmentSpread("G", "keep")
    /\ result = Err(UnknownFragment("G"))
    /\ futures[1].st = "new" /\ futures[1].dropped

\* the field of task t is not declared on the static type of its root
Undeclared(t) ==
    t.fut = "field" /\ field_by_name(type_name(t.root), t.field.name) = {}

Hooked(t) ==
    \E k \in 1..Len(log) :
        /\ log[k].rid = t.rid
        /\ log[k].ev \in {"resolve_field_start", "resolve_field_end"}

\* C10 as stated: the task of an undeclared field fails with FieldNotFound
\* before the root's resolver is invoked, for every extension list.
C10_FieldNotFoundAlways ==
    \A t \in all_tasks(futures) :
        (Undeclared(t) /\ t.st # "new") =>
            /\ t.st = "err"
            /\ t.error = GqlError("FieldNotFound", t.field.name, t.root, NoPath)
            /\ ~Invoked(t)

\* C10: with at least one active extension, the task of an undeclared
\* field fails with FieldNotFound before any hook is called and before the
\* root's resolver is invoked; with no active extension the registry is
\* not consulted and the root's resolver is invoked.
C10_FieldNotFoundWithExtensions ==
    \A t \in all_tasks(futures) :
        (Undeclared(t) /\ t.st # "new") =>
            /\ extensions # <<>> =>
                  /\ t.st = "err"
                  /\ t.error = GqlError("FieldNotFound", t.field.name, t.root, NoPath)
                  /\ ~Invoked(t)
                  /\ ~Hooked(t)
            /\ extensions = <<>> => Invoked(t)

\* C10 witness: with active extensions do_resolve returned FieldNotFound
\* for the undeclared field nofield of Query
C10_Witness ==
    /\ pc = "done"
    /\ extensions # <<>>
    /\ result = Err(GqlError("FieldNotFound", "nofield", "Query", NoPath))
    /\ \E i \in 1..Len(futures) :
          futures[i].st = "err" /\ Undeclared(futures[i]) /\ ~Invoked(futures[i])

\* ========================================================================
\* Type references (src/src/registry.rs, TypeName)
\* ========================================================================
\* bound of the explored inputs: wrappers around the name of a type
\* reference
MaxNesting == 3

\* Option<T>
None == {}
Some(x) == {x}
unwrap(opt) == CHOOSE x \in opt : TRUE

\* str::ends_with(char), str::starts_with(char)
ends_with(s, c) == Len(s) > 0 /\ SubSeq(s, Len(s), Len(s)) = c
starts_with(s, c) == Len(s) > 0 /\ SubSeq(s, 1, 1) = c

\* fn parse_non_null: Some(&type_name[..type_name.len() - 1])
parse_non_null(s) ==
    IF ends_with(s, "!")
    THEN Some(SubSeq(s, 1, Len(s) - 1))
    ELSE None

\* variant: a parse_list that forgets the closing bracket
parse_list_keep_bracket(s) ==
    IF starts_with(s, "[")
    THEN Some(SubSeq(s, 2, Len(s)))
    ELSE None

\* a call that panics does not return: its outcome is neither None nor
\* Some(x) nor a TypeName nor a string nor a boolean
Panic == {"panicked", "slice index starts at 1 but ends at 0"}

\* fn parse_list: Some(&type_name[1..type_name.len() - 1]); on the string
\* "[" the slice is &type_name[1..0], which panics
parse_list(s) ==
    IF starts_with(s, "[")
    THEN IF Len(s) - 1 < 1
         THEN Panic
         ELSE Some(SubSeq(s, 2, Len(s) - 1))
    ELSE None

\* enum TypeName<'a> { List(&str), NonNull(&str), Named(&str) }
List(name) == [kind |-> "List", name |-> name]
NonNull(name) == [kind |-> "NonNull", name |-> name]
Named(name) == [kind |-> "Named", name |-> name]

\* impl Display for TypeName
Display(t) ==
    CASE t.kind = "Named" -> t.name
      [] t.kind = "NonNull" -> t.name \o "!"
      [] t.kind = "List" -> "[" \o t.name \o "]"

\* no TypeName: the call that was to build it panicked
Panicked == [kind |-> "Panic", name |-> ""]

\* TypeName::create; it panics where parse_list does
create(s) ==
    IF parse_non_null(s) # None
    THEN NonNull(unwrap(parse_non_null(s)))
    ELSE IF parse_list(s) = Panic
         THEN Panicked
         ELSE IF parse_list(s) # None
              THEN List(unwrap(parse_list(s)))
              ELSE Named(s)

\* TypeName::concrete_typename
RECURSIVE concrete_typename(_)
concrete_typename(s) ==
    LET t == create(s)
    IN  CASE t.kind = "List" -> concrete_typename(t.name)
          [] t.kind = "NonNull" -> concrete_typename(t.name)
          [] t.kind = "Named" -> t.name
          [] t.kind = "Panic" -> Panic

\* TypeName::is_non_null, TypeName::unwrap_non_null
is_non_null(t) == t.kind = "NonNull"
unwrap_non_null(t) == IF t.kind = "NonNull" THEN create(t.name) ELSE t

RECURSIVE is_subtype(_, _)
RECURSIVE is_subtype_no_promotion(_, _)
\* variant: an is_subtype without the (Named, NonNull) arm
is_subtype_no_promotion(self, sub) ==
    CASE self.kind = "Panic" \/ sub.kind = "Panic" -> Panic
      [] self.kind = "NonNull" /\ sub.kind = "NonNull" ->
            is_subtype_no_promotion(create(self.name), create(sub.name))
      [] self.kind = "Named" /\ sub.kind = "Named" -> self.name = sub.name
      [] self.kind = "List" /\ sub.kind = "List" ->
            is_subtype_no_promotion(create(self.name), create(sub.name))
      [] OTHER -> FALSE

\* TypeName::is_subtype(&self, sub): self is the expected type, sub the
\* candidate; a create that panicked on either side leaves no verdict
is_subtype(self, sub) ==
    CASE self.kind = "Panic" \/ sub.kind = "Panic" -> Panic
      [] (self.kind = "NonNull" /\ sub.kind = "NonNull")
           \/ (self.kind = "Named" /\ sub.kind = "NonNull") ->
            is_subtype(create(self.name), create(sub.name))
      [] self.kind = "Named" /\ sub.kind = "Named" -> self.name = sub.name
      [] self.kind = "List" /\ sub.kind = "List" ->
            is_subtype(create(self.name), create(sub.name))
      [] OTHER -> FALSE

\* ------------------------------------------------------------------------
\* Inputs: the strings built from a type name by nesting [..] and !
\* ------------------------------------------------------------------------
TypeNames == {"Int", "String"}

RECURSIVE Nestings(_)
Nestings(d) ==
    IF d = 0 THEN TypeNames
    ELSE LET inner == Nestings(d - 1)
         IN  inner \cup { "[" \o t \o "]" : t \in inner }
                   \cup { t \o "!" : t \in inner }

\* a legal type reference: no non-null of a non-null
RECURSIVE Legal(_)
Legal(s) ==
    CASE ends_with(s, "!") ->
            LET inner == SubSeq(s, 1, Len(s) - 1)
            IN  ~ends_with(inner, "!") /\ Legal(inner)
      [] starts_with(s, "[") -> Legal(SubSeq(s, 2, Len(s) - 1))
      [] OTHER -> s \in TypeNames

Nullable(s) == ~ends_with(s, "!")

\* the resolution engine is not running
ResolverIdle ==
    /\ items = <<>>
    /\ fragments = [F |-> <<>>]
    /\ extensions = <<>>
    /\ pc = "idle"
    /\ futures = <<>>
    /\ result = [status |-> "none", value |-> Scalar(NoName), error |-> NoError]
    /\ inc_resolve_id = 0
    /\ log = <<>>
    /\ counter = 0
    /\ preserve_order = FALSE

TypeRefInit ==
    /\ ResolverIdle
    /\ CacheIdle
    /\ RegistryIdle
    /\ ValidatorIdle
    /\ GuardIdle
    /\ WsIdle
    /\ ref_a \in Nestings(MaxNesting)
    /\ ref_b \in { s \in Nestings(MaxNesting) : Legal(s) }
    /\ ref_level = ref_a
    /\ ref_shown = NotShown
    /\ ref_subtype = {}

\* format!("{}", TypeName::create(ref_level))
Create ==
    /\ ~ref_shown.shown
    /\ ref_shown' = [shown |-> TRUE, text |-> Display(create(ref_level))]
    /\ UNCHANGED <<ref_a, ref_b, ref_level, ref_subtype, outside_typeref>>

\* one level of unwrapping, as concrete_typename descends
Unwrap ==
    /\ ref_shown.shown
    /\ create(ref_level).kind # "Named"
    /\ ref_level' = create(ref_level).name
    /\ ref_shown' = NotShown
    /\ UNCHANGED <<ref_a, ref_b, ref_subtype, outside_typeref>>

\* the reference itself and, for a nullable one, its non-null form
WithNonNull(s) == IF Nullable(s) THEN {s, s \o "!"} ELSE {s}

\* TypeName::create(x).is_subtype(&TypeName::create(y))
IsSubtype ==
    /\ \E x \in WithNonNull(ref_a), y \in WithNonNull(ref_b) :
          /\ ~(x # ref_a /\ y = ref_b)
          /\ \A r \in ref_subtype : ~(r.self = x /\ r.sub = y)
          /\ ref_subtype' = ref_subtype \cup
                { [self |-> x, sub |-> y,
                   verdict |-> is_subtype(create(x), create(y))] }
    /\ UNCHANGED <<ref_a, ref_b, ref_level, ref_shown, outside_typeref>>

TypeRefNext == Create \/ Unwrap \/ IsSubtype

TypeRefSpec == TypeRefInit /\ [][TypeRefNext]_vars

\* ------------------------------------------------------------------------
\* Claims about type references
\* ------------------------------------------------------------------------
\* C11: formatting TypeName::create(s) gives back s exactly, for every
\* nesting s of [..] and ! around a type name and for the inner string at
\* every level of unwrapping; the last level is the bare name that
\* concrete_typename returns.
C11_RoundTrip ==
    ref_shown.shown =>
        /\ ref_shown.text = ref_level
        /\ create(ref_level).kind = "Named" =>
              /\ ref_level = concrete_typename(ref_a)
              /\ ref_level \in TypeNames

\* C11 witness: "[String!]!" was unwrapped down to its bare name, and the
\* innermost level was formatted
C11_Witness ==
    /\ ref_a = "[String!]!"
    /\ ref_level = "String"
    /\ ref_shown = [shown |-> TRUE, text |-> "String"]

\* C12: is_subtype(T, T) holds for every legal T; is_subtype(Int, Int!)
\* holds and is_subtype(Int!, Int) does not.
C12_Reflexive ==
    \A r \in ref_subtype :
        /\ (Legal(r.self) /\ r.self = r.sub) => r.verdict
        /\ (r.self = "Int" /\ r.sub = "Int!") => r.verdict
        /\ (r.self = "Int!" /\ r.sub = "Int") => ~r.verdict

\* C12 witness: starting from Int and Int, the verdicts on (Int, Int),
\* (Int, Int!) and (Int!, Int!) have been obtained
C12_Witness ==
    /\ ref_a = "Int"
    /\ ref_b = "Int"
    /\ [self |-> "Int", sub |-> "Int", verdict |-> TRUE] \in ref_subtype
    /\ [self |-> "Int", sub |-> "Int!", verdict |-> TRUE] \in ref_subtype
    /\ [self |-> "Int!", sub |-> "Int!", verdict |-> TRUE] \in ref_subtype

\* C13: for legal nullable A and legal nullable B, when B satisfies A then
\* B! satisfies A and B! satisfies A!.
C13_NonNullSatisfies ==
    \A r \in ref_subtype :
        (Legal(r.self) /\ Legal(r.sub) /\ Nullable(r.self) /\ Nullable(r.sub)
           /\ r.verdict) =>
        \A q \in ref_subtype :
            (q.sub = r.sub \o "!" /\ q.self \in WithNonNull(r.self)) =>
                q.verdict

\* ========================================================================
\* Cache control hints (src/src/registry.rs, CacheControl)
\* ========================================================================
\* bound of the explored inputs: max_age ranges over 0, 30, .. ,
\* 30 * MaxAgeSteps
MaxAgeSteps == 3

\* usize::min
min(a, b) == IF a <= b THEN a ELSE b

\* variant: a merge that takes the smaller max_age, 0 included
merge_plain_min(self, other) ==
    CacheControl(self.public /\ other.public,
                 min(self.max_age, other.max_age))

\* CacheControl::merge(&mut self, other): the value of self after the call
merge(self, other) ==
    CacheControl(self.public /\ other.public,
                 IF self.max_age = 0 THEN other.max_age
                 ELSE IF other.max_age = 0 THEN self.max_age
                 ELSE min(self.max_age, other.max_age))

Hints ==
    { CacheControl(public, 30 * k) : public \in BOOLEAN, k \in 0..MaxAgeSteps }

CacheInit ==
    /\ ResolverIdle
    /\ TypeRefIdle
    /\ RegistryIdle
    /\ ValidatorIdle
    /\ GuardIdle
    /\ WsIdle
    /\ cc_a \in Hints
    /\ cc_b \in Hints
    /\ cc_ab = None
    /\ cc_ba = None

\* let mut x = cc_a; x.merge(&cc_b);
MergeAB ==
    /\ cc_ab = None
    /\ cc_ab' = Some(merge(cc_a, cc_b))
    /\ UNCHANGED <<cc_a, cc_b, cc_ba, outside_cache>>

\* let mut y = cc_b; y.merge(&cc_a);
MergeBA ==
    /\ cc_ba = None
    /\ cc_ba' = Some(merge(cc_b, cc_a))
    /\ UNCHANGED <<cc_a, cc_b, cc_ab, outside_cache>>

CacheNext == MergeAB \/ MergeBA

CacheSpec == CacheInit /\ [][CacheNext]_vars

\* C14: merge is commutative, {public: true, max_age: 0} is its identity on
\* both sides, and {true, 30} merged with {false, 60} is {false, 30}.
C14_MergeCommutativeIdentity ==
    /\ (cc_ab # None /\ cc_ba # None) => cc_ab = cc_ba
    /\ (cc_ab # None /\ cc_b = CacheControl_default) => cc_ab = Some(cc_a)
    /\ (cc_ab # None /\ cc_a = CacheControl_default) => cc_ab = Some(cc_b)
    /\ (cc_ab # None /\ cc_a = CacheControl(TRUE, 30)
          /\ cc_b = CacheControl(FALSE, 60)) =>
            cc_ab = Some(CacheControl(FALSE, 30))

\* C14 witness: {true, 30} and {false, 60} have been merged both ways
C14_Witness ==
    /\ cc_a = CacheControl(TRUE, 30)
    /\ cc_b = CacheControl(FALSE, 60)
    /\ cc_ab = Some(CacheControl(FALSE, 30))
    /\ cc_ba # None

\* ========================================================================
\* Schema registry (src/src/registry.rs, Registry)
\* ========================================================================
\* bound: add_keys calls per type (the key vector grows with every call)
MaxKeys == 2

\* HashMap::insert, HashMap::contains_key
insert(map, k, v) ==
    [x \in DOMAIN map \cup {k} |-> IF x = k THEN v ELSE map[x]]
contains_key(map, k) == k \in DOMAIN map

\* struct Field, struct InputValue
InputValueWith(name, ty, default_value, validator) ==
    [name |-> name, ty |-> ty, default_value |-> default_value,
     validator |-> validator]
InputValue(name, ty) == InputValueWith(name, ty, None, None)
registry_Field(name, ty, args) ==
    [name |-> name, ty |-> ty, args |-> args, external |-> FALSE,
     requires |-> None, provides |-> None]

\* a HashMap<String, Field> holding the given fields under their names
FieldMap(fs) == [n \in { f.name : f \in fs } |-> CHOOSE f \in fs : f.name = n]

\* enum Type: the variants the registry operations distinguish
Type_Scalar(name) ==
    [kind |-> "Scalar", name |-> name, fields |-> EmptyMap,
     possible_types |-> {}, extends |-> FALSE, keys |-> None]
Type_Object(name, fields) ==
    [kind |-> "Object", name |-> name, fields |-> fields,
     possible_types |-> {}, extends |-> FALSE, keys |-> None]
Type_Interface(name, fields, possible_types) ==
    [kind |-> "Interface", name |-> name, fields |-> fields,
     possible_types |-> possible_types, extends |-> FALSE, keys |-> None]
Type_Union(name, possible_types) ==
    [kind |-> "Union", name |-> name, fields |-> EmptyMap,
     possible_types |-> possible_types, extends |-> FALSE, keys |-> None]

\* the stand-in create_type inserts before it calls the builder
Placeholder == Type_Object("", EmptyMap)

\* Registry.query_type
query_type == "Query"

\* ------------------------------------------------------------------------
\* The Rust types of the program that implement Type: T::type_name(), the
\* create_type_info calls inside the builder T hands to create_type, and
\* the Type that builder returns
\* ------------------------------------------------------------------------
RustTypes ==
    { "Int", "__Schema", "QueryRoot", "EmptyQueryRoot", "User", "Post",
      "Node", "SearchResult", "EmptyMutation", "EmptySubscription" }

Type_type_name(T) ==
    CASE T \in {"QueryRoot", "EmptyQueryRoot"} -> query_type
      [] T = "EmptySubscription" -> "EmptyMutation"
      [] T = "Any" -> "_Any"
      [] OTHER -> T

registrations(T) ==
    CASE T = "QueryRoot" -> <<"__Schema", "User">>
      [] T = "EmptyQueryRoot" -> <<"__Schema">>
      [] T = "User" -> <<"Int", "User", "Post">>
      [] T = "Post" -> <<"Int", "User">>
      [] T = "Node" -> <<"User", "Post">>
      [] T = "SearchResult" -> <<"User", "Post">>
      [] OTHER -> <<>>

IntrospectionFields ==
    { registry_Field("__schema", "__Schema!", {}),
      registry_Field("__type", "__Type", {InputValue("name", "String!")}) }

builder(T) ==
    CASE T = "Int" -> Type_Scalar("Int")
      [] T = "Any" -> Type_Scalar("_Any")
      [] T = "__Schema" ->
            Type_Object("__Schema",
                FieldMap({registry_Field("queryType", "__Schema!", {})}))
      [] T = "QueryRoot" ->
            Type_Object("Query", FieldMap(IntrospectionFields
                \cup {registry_Field("me", "User", {})}))
      [] T = "EmptyQueryRoot" ->
            Type_Object("Query", FieldMap(IntrospectionFields))
      [] T = "User" ->
            Type_Object("User", FieldMap(
                { registry_Field("id", "Int!", {}),
                  registry_Field("friend", "User", {}),
                  registry_Field("posts", "[Post!]", {}) }))
      [] T = "Post" ->
            Type_Object("Post", FieldMap(
                { registry_Field("id", "Int!", {}),
                  registry_Field("author", "User!", {}),
                  registry_Field("likes", "Int", {}),
                  registry_Field("views", "Int", {}) }))
      [] T = "Node" ->
            Type_Interface("Node",
                FieldMap({registry_Field("id", "Int!", {})}),
                {"User", "Post"})
      [] T = "SearchResult" -> Type_Union("SearchResult", {"User", "Post"})
      [] T = "EmptyMutation" -> Type_Object("EmptyMutation", EmptyMap)
      [] T = "EmptySubscription" -> Type_Object("EmptySubscription", EmptyMap)

\* the names under which a type can enter the type map
TypeKeys ==
    { Type_type_name(T) : T \in RustTypes \cup {"Any"} }
        \cup {"_Service", "_Entity"}

\* ------------------------------------------------------------------------
\* Registry::create_type
\* ------------------------------------------------------------------------
Frame(T) == [ty |-> T, next |-> 1]
RegState(ts, st, inv) == [types |-> ts, stack |-> st, invoked |-> inv]

\* variant: a create_type that takes the stand-in of a registration in
\* progress for a missing type
create_type_ignoring_placeholder(T, reg) ==
    LET name == Type_type_name(T)
    IN  IF ~contains_key(reg.types, name) \/ reg.types[name] = Placeholder
        THEN RegState(insert(reg.types, name, Placeholder),
                      Append(reg.stack, Frame(T)),
                      [reg.invoked EXCEPT ![name] = Append(@, T)])
        ELSE reg

\* create_type::<T, _>(f), up to the call of the builder f: the stand-in
\* is inserted and f starts (a new frame); or the name is present and
\* nothing happens
create_type(T, reg) ==
    LET name == Type_type_name(T)
    IN  IF ~contains_key(reg.types, name)
        THEN RegState(insert(reg.types, name, Placeholder),
                      Append(reg.stack, Frame(T)),
                      [reg.invoked EXCEPT ![name] = Append(@, T)])
        ELSE reg

\* create_type::<T, _>(f), after f returned ty:
\* self.types.insert(name.to_string(), ty)
create_type_return(T, ty, reg) ==
    RegState(insert(reg.types, Type_type_name(T), ty),
             SubSeq(reg.stack, 1, Len(reg.stack) - 1), reg.invoked)

\* Registry::add_keys
add_keys(ts, ty, keys) ==
    IF contains_key(ts, ty) /\ ts[ty].kind \in {"Object", "Interface"}
    THEN IF ts[ty].keys # None
         THEN [ts EXCEPT ![ty].keys = Some(Append(unwrap(@), keys))]
         ELSE [ts EXCEPT ![ty].keys = Some(<<keys>>)]
    ELSE ts

\* ------------------------------------------------------------------------
\* Federation: create_federation_types
\* ------------------------------------------------------------------------
\* keys: Some(keys) with !keys.is_empty(), on an Object or an Interface
is_entity(ty) ==
    /\ ty.kind \in {"Object", "Interface"}
    /\ ty.keys # None
    /\ unwrap(ty.keys) # <<>>

\* Registry::has_entities
has_entities(ts) == \E n \in DOMAIN ts : is_entity(ts[n])

\* Registry::create_entity_type
create_entity_type(ts) ==
    insert(ts, "_Entity", Type_Union("_Entity",
        { ts[n].name : n \in { k \in DOMAIN ts : is_entity(ts[k]) } }))

\* T::create_type_info(registry) of a type whose builder registers nothing:
\* registry.create_type::<T, _>(|_| ..)
create_type_info(T, reg) ==
    LET called == create_type(T, reg)
    IN  IF called.stack # reg.stack
        THEN create_type_return(T, builder(T), called)
        ELSE called

\* the fields create_federation_types puts on the query root
service_field == registry_Field("_service", "_Service!", {})
entities_field ==
    registry_Field("_entities", "[_Entity]!",
                   {InputValue("representations", "[_Any!]!")})

\* Option::unwrap of None
UnwrapNone == {"panicked", "called Option::unwrap() on a None value"}

\* let query_root = self.types.get_mut(&self.query_type).unwrap();
\* if let Type::Object { fields, .. } = query_root { fields.insert(..) x 2 }
inject_root_fields(ts) ==
    IF ~contains_key(ts, query_type) THEN UnwrapNone
    ELSE IF ts[query_type].kind = "Object"
    THEN [ts EXCEPT ![query_type].fields =
            insert(insert(@, "_service", service_field),
                   "_entities", entities_field)]
    ELSE ts

\* variant: a create_federation_types that does not look at has_entities
create_federation_types_always(reg) ==
    LET any == create_type_info("Any", reg)
        service == insert(any.types, "_Service",
                      Type_Object("_Service",
                          FieldMap({registry_Field("sdl", "String", {})})))
    IN  IF ~contains_key(service, query_type) THEN UnwrapNone
        ELSE [any EXCEPT !.types =
                    inject_root_fields(create_entity_type(service))]

\* Registry::create_federation_types; it panics where the unwrap of the
\* query root does
create_federation_types(reg) ==
    IF ~has_entities(reg.types)
    THEN reg
    ELSE LET any == create_type_info("Any", reg)
             service == insert(any.types, "_Service",
                           Type_Object("_Service",
                               FieldMap({registry_Field("sdl", "String", {})})))
         IN  IF ~contains_key(service, query_type) THEN UnwrapNone
             ELSE [any EXCEPT !.types =
                        inject_root_fields(create_entity_type(service))]

\* ------------------------------------------------------------------------
\* Federation: create_federation_sdl. The text is kept as the blocks
\* written, each with the field lines written inside it; the order of the
\* blocks and of the lines is the iteration order of a HashMap, which the
\* code does not fix.
\* ------------------------------------------------------------------------
\* str::starts_with("__")
is_introspection_name(name) ==
    Len(name) >= 2 /\ SubSeq(name, 1, 2) = "__"

FieldLine(field) ==
    [name |-> field.name, ty |-> field.ty, external |-> field.external,
     requires |-> field.requires, provides |-> field.provides]

\* Registry::create_federation_fields
create_federation_fields(fields) ==
    { FieldLine(fields[n]) :
        n \in { f \in DOMAIN fields :
                  /\ ~is_introspection_name(fields[f].name)
                  /\ fields[f].name \notin {"_service", "_entities"} } }

Block(keyword, ty) ==
    [keyword |-> keyword, name |-> ty.name, extends |-> ty.extends,
     keys |-> IF ty.keys # None THEN unwrap(ty.keys) ELSE <<>>,
     fields |-> create_federation_fields(ty.fields)]

\* Registry::create_federation_type: the block written for ty, if any
create_federation_type(ty) ==
    CASE ty.kind = "Object" ->
            IF is_introspection_name(ty.name) THEN None
            ELSE IF ty.name = "_Service" THEN None
            ELSE IF Cardinality(DOMAIN ty.fields) = 4 THEN None
            ELSE Some(Block("type", ty))
      [] ty.kind = "Interface" -> Some(Block("interface", ty))
      [] OTHER -> None

\* Registry::create_federation_sdl: block -> the number of times the text
\* contains it
create_federation_sdl(ts) ==
    LET written == { n \in DOMAIN ts : create_federation_type(ts[n]) # None }
        blocks == { unwrap(create_federation_type(ts[n])) : n \in written }
    IN  [b \in blocks |->
            Cardinality({ n \in written :
                            create_federation_type(ts[n]) = Some(b) })]

\* ------------------------------------------------------------------------
\* Building a schema: the registry operations as steps
\* ------------------------------------------------------------------------
RegistryInit ==
    /\ ResolverIdle
    /\ TypeRefIdle
    /\ CacheIdle
    /\ ValidatorIdle
    /\ GuardIdle
    /\ WsIdle
    /\ types = EmptyMap
    /\ reg_stack = <<>>
    /\ invoked = [k \in TypeKeys |-> <<>>]
    /\ sdl = None

registry == RegState(types, reg_stack, invoked)

Becomes(reg) ==
    /\ types' = reg.types
    /\ reg_stack' = reg.stack
    /\ invoked' = reg.invoked

\* T::create_type_info(&mut registry), called while the schema is built
CreateTypeInfo(T) ==
    /\ reg_stack = <<>>
    /\ sdl = None
    /\ Becomes(create_type(T, registry))
    /\ UNCHANGED <<sdl, outside_registry>>

top == reg_stack[Len(reg_stack)]

\* the builder on top of the stack makes its next nested call of
\* create_type_info
BuilderStep ==
    /\ reg_stack # <<>>
    /\ top.next <= Len(registrations(top.ty))
    /\ Becomes(create_type(registrations(top.ty)[top.next],
          RegState(types,
                   [reg_stack EXCEPT ![Len(reg_stack)].next = @ + 1],
                   invoked)))
    /\ UNCHANGED <<sdl, outside_registry>>

\* the builder on top of the stack returns its Type
BuilderReturn ==
    /\ reg_stack # <<>>
    /\ top.next > Len(registrations(top.ty))
    /\ Becomes(create_type_return(top.ty, builder(top.ty), registry))
    /\ UNCHANGED <<sdl, outside_registry>>

\* the type names add_keys is called with: an Object, an Interface, a
\* Scalar and a name that is never registered
KeyTargets == {"User", "Node", "Int", "Ghost"}

\* registry.add_keys(ty, "id")
AddKeys(ty) ==
    /\ sdl = None
    /\ (contains_key(types, ty) /\ types[ty].keys # None) =>
            Len(unwrap(types[ty].keys)) < MaxKeys
    /\ types' = add_keys(types, ty, "id")
    /\ UNCHANGED <<reg_stack, invoked, sdl, outside_registry>>

\* registry.create_federation_types(), once the root types are registered
\* (the unwrap() of line 579 needs the query root)
CreateFederationTypes ==
    /\ reg_stack = <<>>
    /\ sdl = None
    /\ contains_key(types, query_type)
    /\ Becomes(create_federation_types(registry))
    /\ UNCHANGED <<sdl, outside_registry>>

\* registry.create_federation_sdl(), on the schema as built
CreateFederationSdl ==
    /\ reg_stack = <<>>
    /\ sdl = None
    /\ sdl' = Some(create_federation_sdl(types))
    /\ UNCHANGED <<types, reg_stack, invoked, outside_registry>>

RegistryNext ==
    \/ \E T \in RustTypes : CreateTypeInfo(T)
    \/ BuilderStep
    \/ BuilderReturn
    \/ \E ty \in KeyTargets : AddKeys(ty)
    \/ CreateFederationTypes
    \/ CreateFederationSdl

RegistrySpec == RegistryInit /\ [][RegistryNext]_vars

\* a registration proceeds: the builder being run makes its calls and
\* returns
RegistryLive ==
    RegistrySpec /\ WF_vars(BuilderStep) /\ WF_vars(BuilderReturn)

\* ------------------------------------------------------------------------
\* Claims about the registry
\* ------------------------------------------------------------------------
\* ty is what the builder result b has become after add_keys and
\* create_federation_types: only its keys and, by _service and _entities,
\* its fields may differ
AsBuilt(ty, b) ==
    /\ ty.kind = b.kind
    /\ ty.name = b.name
    /\ ty.possible_types = b.possible_types
    /\ ty.extends = b.extends
    /\ \A f \in DOMAIN b.fields :
          f \in DOMAIN ty.fields /\ ty.fields[f] = b.fields[f]
    /\ DOMAIN ty.fields \ DOMAIN b.fields \subseteq {"_service", "_entities"}

\* the names that enter the type map through create_type
BuiltKeys == TypeKeys \ {"_Service", "_Entity"}

C15_OncePerName ==
    /\ \A k \in BuiltKeys :
          /\ Len(invoked[k]) <= 1
          /\ contains_key(types, k) <=> Len(invoked[k]) = 1
    /\ reg_stack = <<>> =>
          \A k \in DOMAIN types :
              /\ types[k] # Placeholder
              /\ k \in BuiltKeys => AsBuilt(types[k], builder(invoked[k][1]))

C15_CallOnPresentName ==
    /\ \A T \in RustTypes :
          (CreateTypeInfo(T) /\ contains_key(types, Type_type_name(T))) =>
              UNCHANGED <<types, reg_stack, invoked>>
    /\ (BuilderStep /\ contains_key(types,
              Type_type_name(registrations(top.ty)[top.next]))) =>
          /\ UNCHANGED <<types, invoked>>
          /\ Len(reg_stack') = Len(reg_stack)
    /\ BuilderReturn =>
          types'[Type_type_name(top.ty)] = builder(top.ty)

\* C15: under every name the builder is invoked exactly once: a
\* create_type call for a name already in the type map (a finished type or
\* the stand-in of a registration in progress) invokes no builder and
\* leaves the registry unchanged, every registration terminates, and when
\* the outermost call has returned every registered name maps to the
\* result of the builder invoked for it and no stand-in remains.
C15_CreateTypeOnce ==
    /\ []C15_OncePerName
    /\ [][C15_CallOnPresentName]_vars
    /\ (reg_stack # <<>>) ~> (reg_stack = <<>>)

\* C15 witness: the self-referencing, mutually recursive User and Post are
\* registered, nested calls for them found the name present, and
\* EmptySubscription was registered under the name EmptyMutation
C15_Witness ==
    /\ reg_stack = <<>>
    /\ invoked["User"] = <<"User">>
    /\ invoked["Post"] = <<"Post">>
    /\ types["User"] = builder("User")
    /\ types["Post"] = builder("Post")
    /\ invoked["EmptyMutation"] = <<"EmptySubscription">>

\* the names of the Objects and Interfaces of ts with a non-empty key set
EntityNames(ts) == { ts[k].name : k \in { n \in DOMAIN ts : is_entity(ts[n]) } }

\* what create_federation_types adds when there are entities, whatever else
\* it may do: _Service with the single field sdl, the _Entity union of the
\* entity names, _service and _entities(representations) on the query root
FederationAdded ==
    /\ contains_key(types', "_Service")
    /\ types'["_Service"].kind = "Object"
    /\ types'["_Service"].name = "_Service"
    /\ DOMAIN types'["_Service"].fields = {"sdl"}
    /\ contains_key(types', "_Entity")
    /\ types'["_Entity"].kind = "Union"
    /\ types'["_Entity"].possible_types = EntityNames(types)
    /\ DOMAIN types'[query_type].fields =
          DOMAIN types[query_type].fields \cup {"_service", "_entities"}
    /\ \A f \in DOMAIN types[query_type].fields \ {"_service", "_entities"} :
          types'[query_type].fields[f] = types[query_type].fields[f]
    /\ types'[query_type].fields["_service"].ty = "_Service!"
    /\ types'[query_type].fields["_entities"].ty = "[_Entity]!"
    /\ { a.name : a \in types'[query_type].fields["_entities"].args } =
          {"representations"}
    /\ [types'[query_type] EXCEPT !.fields = EmptyMap] =
          [types[query_type] EXCEPT !.fields = EmptyMap]

\* the rest of the type map, but for the names in touched, is as it was
OthersUnchanged(touched) ==
    /\ DOMAIN types' \ touched = DOMAIN types \ touched
    /\ \A k \in DOMAIN types \ touched : types'[k] = types[k]

\* C16 as stated: without entities create_federation_types changes nothing
\* and the query root has no _service or _entities field; with entities it
\* adds _Service, _Entity and the two root fields and changes nothing else.
C16_FederationOnlyAdds ==
    [][CreateFederationTypes =>
         IF ~has_entities(types)
         THEN /\ UNCHANGED registry_vars
              /\ DOMAIN types[query_type].fields \cap
                    {"_service", "_entities"} = {}
         ELSE /\ FederationAdded
              /\ OthersUnchanged({"_Service", "_Entity", query_type})
              /\ UNCHANGED <<invoked, reg_stack, sdl>>]_vars

\* C16, amended: with entities, create_federation_types also registers the
\* scalar _Any through create_type when that name is absent.
C16_FederationAddsWithAny ==
    [][CreateFederationTypes =>
         IF ~has_entities(types)
         THEN /\ UNCHANGED registry_vars
              /\ DOMAIN types[query_type].fields \cap
                    {"_service", "_entities"} = {}
         ELSE /\ FederationAdded
              /\ OthersUnchanged({"_Service", "_Entity", "_Any", query_type})
              /\ contains_key(types', "_Any")
              /\ IF contains_key(types, "_Any")
                 THEN types'["_Any"] = types["_Any"] /\ invoked' = invoked
                 ELSE /\ types'["_Any"] = Type_Scalar("_Any")
                      /\ invoked' = [invoked EXCEPT !["_Any"] = <<"Any">>]
              /\ UNCHANGED <<reg_stack, sdl>>]_vars

\* C16 witness: create_federation_types has run on a registry whose only
\* entity is User
C16_Witness ==
    /\ contains_key(types, "_Entity")
    /\ types["_Entity"].possible_types = {"User"}
    /\ contains_key(types, "_Service")
    /\ {"_service", "_entities"} \subseteq DOMAIN types[query_type].fields
    /\ contains_key(types, "Node")

\* the number of blocks of the text bag that are written for the name n
BlocksNamed(bag, n) ==
    LET named == { b \in DOMAIN bag : b.name = n }
    IN  IF named = {} THEN 0
        ELSE IF Cardinality(named) = 1 THEN bag[CHOOSE b \in named : TRUE]
        ELSE Cardinality(named)

ReservedRootFields == {"__schema", "__type", "_service", "_entities"}

\* the Objects and Interfaces for which the claim expects a block
ExpectsBlock(k) ==
    /\ types[k].kind \in {"Object", "Interface"}
    /\ ~is_introspection_name(types[k].name)
    /\ types[k].name # "_Service"
    /\ ~(k = query_type /\ DOMAIN types[k].fields = ReservedRootFields)

\* C17: create_federation_sdl writes exactly one block for every Object and
\* Interface except introspection types, _Service and a query root whose
\* only fields are the four reserved ones; every other Object gets a block
\* whatever its number of fields; no block lists a field with the __ prefix
\* or named _service or _entities.
C17_OneBlockPerType ==
    sdl # None =>
        /\ \A k \in DOMAIN types :
              BlocksNamed(unwrap(sdl), types[k].name) =
                  IF ExpectsBlock(k) THEN 1 ELSE 0
        /\ \A b \in DOMAIN unwrap(sdl) : \A line \in b.fields :
              /\ ~is_introspection_name(line.name)
              /\ line.name \notin {"_service", "_entities"}

\* C18: the possible types of every Interface and Union of the type map,
\* _Entity included, are names of declared Object types.
C18_PossibleTypesAreObjects ==
    \A k \in DOMAIN types :
        types[k].kind \in {"Interface", "Union"} =>
            \A p \in types[k].possible_types :
                contains_key(types, p) /\ types[p].kind = "Object"

\* ========================================================================
\* Value validator (src/src/validation/utils.rs, is_valid_input_value)
\* ========================================================================
\* bound of the explored inputs: elements of a list value
MaxElems == 2

\* enum GqlValue
GqlValue(kind, name, n, elems, values) ==
    [kind |-> kind, name |-> name, n |-> n, elems |-> elems,
     values |-> values]
GqlValue_Variable(name) == GqlValue("Variable", name, 0, <<>>, EmptyMap)
GqlValue_Int(n) == GqlValue("Int", "", n, <<>>, EmptyMap)
GqlValue_String(str) == GqlValue("String", str, 0, <<>>, EmptyMap)
GqlValue_Enum(name) == GqlValue("Enum", name, 0, <<>>, EmptyMap)
GqlValue_List(elems) == GqlValue("List", "", 0, elems, EmptyMap)
GqlValue_Object(values) == GqlValue("Object", "", 0, <<>>, values)

\* enum Type: the input variants
Type_Enum(name, enum_values) ==
    [kind |-> "Enum", name |-> name, enum_values |-> enum_values]
Type_InputObject(name, input_fields) ==
    [kind |-> "InputObject", name |-> name, input_fields |-> input_fields]

\* a HashMap<String, InputValue> holding the given fields under their names
InputFieldMap(fs) ==
    [n \in { f.name : f \in fs } |-> CHOOSE f \in fs : f.name = n]

\* QueryPathSegment, and a QueryPathNode as the segments from the root
Segment_Name(name) == [name |-> name, index |-> -1]
Segment_Index(idx) == [name |-> "", index |-> idx]

\* impl Display for QueryPathNode: the segments joined by "."
RECURSIVE path_display(_)
path_display(path) ==
    IF path = <<>> THEN ""
    ELSE LET last == path[Len(path)]
             text == IF last.index >= 0 THEN ToString(last.index)
                     ELSE last.name
         IN  IF Len(path) = 1 THEN text
             ELSE path_display(SubSeq(path, 1, Len(path) - 1)) \o "." \o text

\* fn valid_error: format!("\"{}\", {}", path_node, msg)
valid_error(path_node, msg) ==
    "\"" \o path_display(path_node) \o "\", " \o msg

\* format!("expected type \"{}\"", type_name)
expected_type(s) == "expected type \"" \o s \o "\""

\* Type::Scalar { is_valid, .. }: the validity predicate of a scalar
scalar_is_valid(name, value) ==
    CASE name = "Int" -> value.kind = "Int"
      [] name = "String" -> value.kind = "String"
      [] OTHER -> TRUE

\* InputValueValidator::is_valid of the validator capabilities of the
\* schema: an integer range, which accepts integers between 0 and 100
validator_is_valid(validator, value) ==
    CASE validator = "IntRange" ->
            IF value.kind = "Int"
            THEN IF value.n < 0 \/ value.n > 100
                 THEN Some("the value must be between 0 and 100")
                 ELSE None
            ELSE Some(expected_type("Int"))
      [] OTHER -> None

\* unreachable!(): the panic of a branch the code takes for impossible
Unreachable == {"panicked", "internal error: entered unreachable code"}

\* variant: the default of an absent field is not looked at
is_required_ignoring_default(field) ==
    IF create(field.ty).kind = "Panic" THEN Panic
    ELSE is_non_null(create(field.ty))

\* TypeName::create(&field.ty).is_non_null()
\*     && field.default_value.is_none()
\* create is evaluated first, so the call panics where create does,
\* whatever the default
is_required(field) ==
    IF create(field.ty).kind = "Panic" THEN Panic
    ELSE is_non_null(create(field.ty)) /\ field.default_value = None

\* The functions below return the set of the results the call can give:
\* each result is an Option<String>. There can be several because the
\* fields of an input object and the unknown keys are visited in the
\* iteration order of a HashMap or HashSet, and the first failure found
\* is returned.
RECURSIVE is_valid_input_value(_, _, _, _)
RECURSIVE is_valid_elems(_, _, _, _, _)

\* variant: the loop over the elements goes on after a failure and returns
\* the failure of the last invalid element
RECURSIVE is_valid_elems_last_failure(_, _, _, _, _)
is_valid_elems_last_failure(reg, s, elems, i, path_node) ==
    IF i > Len(elems) THEN {None}
    ELSE LET here == is_valid_input_value(reg, s, elems[i],
                        Append(path_node, Segment_Index(i - 1)))
             later == is_valid_elems_last_failure(reg, s, elems, i + 1,
                                                  path_node)
         IN  (later \ {None}) \cup (IF None \in later THEN here ELSE {})

\* for (idx, elem) in elems.iter().enumerate(): elems from position i on
is_valid_elems(reg, s, elems, i, path_node) ==
    IF i > Len(elems) THEN {None}
    ELSE LET here == is_valid_input_value(reg, s, elems[i],
                        Append(path_node, Segment_Index(i - 1)))
         IN  (here \ {None}) \cup
             (IF None \in here
              THEN is_valid_elems(reg, s, elems, i + 1, path_node)
              ELSE {})

\* the body of  for field in input_fields.values()  for one field
is_valid_input_field(reg, ty, field, values, path_node) ==
    IF field.name \in DOMAIN values
    THEN LET value == values[field.name]
             field_path == Append(path_node, Segment_Name(field.name))
             reason == IF field.validator # None
                       THEN validator_is_valid(unwrap(field.validator), value)
                       ELSE None
         IN  IF reason # None
             THEN {Some(valid_error(field_path, unwrap(reason)))}
             ELSE is_valid_input_value(reg, field.ty, value, field_path)
    ELSE IF create(field.ty).kind = "Panic"
         THEN {is_required(field)}
    ELSE IF is_required(field)
         THEN {Some(valid_error(path_node,
                   "field \"" \o field.name \o "\" of type \"" \o ty.name
                       \o "\" is required but not provided"))}
         ELSE {None}

\* Type::InputObject, GqlValue::Object(values)
is_valid_input_object(reg, ty, values, path_node) ==
    LET fields == ty.input_fields
        found == [f \in DOMAIN fields |->
                    is_valid_input_field(reg, ty, fields[f], values,
                                         path_node)]
        input_names == DOMAIN values \ { fields[f].name : f \in DOMAIN fields }
    IN  UNION { found[f] \ {None} : f \in DOMAIN fields } \cup
        (IF \A f \in DOMAIN fields : None \in found[f]
         THEN IF input_names # {}
              THEN { Some(valid_error(path_node,
                        "unknown field \"" \o name \o "\" of type \""
                            \o ty.name \o "\"")) : name \in input_names }
              ELSE {None}
         ELSE {})

\* registry.types.get(type_name) for a value that is not null; a name
\* that is not in the registry runs into unreachable!()
is_valid_named(reg, s, value, path_node) ==
    IF ~contains_key(reg, s)
    THEN {Unreachable}
    ELSE LET ty == reg[s]
         IN  CASE ty.kind = "Scalar" ->
                    IF ~scalar_is_valid(ty.name, value)
                    THEN {Some(valid_error(path_node, expected_type(s)))}
                    ELSE {None}
               [] ty.kind = "Enum" ->
                    IF value.kind = "Enum"
                    THEN IF value.name \notin ty.enum_values
                         THEN {Some(valid_error(path_node,
                                  "enumeration type \"" \o ty.name
                                    \o "\" does not contain the value \""
                                    \o value.name \o "\""))}
                         ELSE {None}
                    ELSE {Some(valid_error(path_node, expected_type(s)))}
               [] ty.kind = "InputObject" ->
                    IF value.kind = "Object"
                    THEN is_valid_input_object(reg, ty, value.values,
                                               path_node)
                    ELSE {None}
               [] OTHER -> {None}

\* pub fn is_valid_input_value(registry, type_name, value, path_node)
is_valid_input_value(reg, s, value, path_node) ==
    IF value.kind = "Variable" THEN {None}
    ELSE LET t == create(s)
         IN  CASE t.kind = "NonNull" ->
                    IF value.kind = "Null"
                    THEN {Some(valid_error(path_node, expected_type(t.name)))}
                    ELSE is_valid_input_value(reg, t.name, value, path_node)
               [] t.kind = "List" ->
                    IF value.kind = "List"
                    THEN is_valid_elems(reg, t.name, value.elems, 1,
                                        path_node)
                    ELSE is_valid_input_value(reg, t.name, value, path_node)
               [] t.kind = "Named" ->
                    IF value.kind = "Null" THEN {None}
                    ELSE is_valid_named(reg, t.name, value, path_node)
               [] t.kind = "Panic" -> {Panic}

\* ------------------------------------------------------------------------
\* Inputs: a schema with a scalar, an enum and two input objects, type
\* references over it, and values
\* ------------------------------------------------------------------------
ValidationRegistry ==
    [n \in {"Int", "Color", "MyInput", "Filter"} |->
        CASE n = "Int" -> Type_Scalar("Int")
          [] n = "Color" -> Type_Enum("Color", {"RED", "GREEN"})
          [] n = "MyInput" ->
                Type_InputObject("MyInput", InputFieldMap(
                    {InputValueWith("value", "Int!", Some("100"), None)}))
          [] n = "Filter" ->
                Type_InputObject("Filter", InputFieldMap(
                    { InputValueWith("min", "Int!", None, None),
                      InputValueWith("max", "Int", None, None),
                      InputValueWith("limit", "Int!", Some("10"),
                                     Some("IntRange")) }))]

ValidationTypeRefs ==
    { "Int", "Int!", "[Int]", "[Int!]", "[Int!]!", "Color", "Color!",
      "MyInput", "MyInput!", "Filter" }

ScalarValues ==
    { GqlValue_Null, GqlValue_Variable("v"), GqlValue_Int(1),
      GqlValue_Int(88), GqlValue_Int(200) }

LeafValues ==
    ScalarValues \cup
        { GqlValue_String("x"), GqlValue_Enum("RED"), GqlValue_Enum("BLUE") }

ObjectsOver(keys) ==
    { GqlValue_Object(m) : m \in UNION { [K -> ScalarValues] : K \in SUBSET keys } }

ListValues == { GqlValue_List(elems) : elems \in SeqsUpTo(LeafValues, MaxElems) }

InputValues ==
    LeafValues \cup ListValues
        \cup ObjectsOver({"value", "bogus", "extra"})
        \cup ObjectsOver({"min", "max", "limit", "bogus"})

ValidatorInit ==
    /\ ResolverIdle
    /\ TypeRefIdle
    /\ CacheIdle
    /\ RegistryIdle
    /\ GuardIdle
    /\ WsIdle
    /\ in_type \in ValidationTypeRefs
    /\ in_value \in InputValues
    /\ in_result = NotCalled

\* is_valid_input_value(&registry, in_type, &in_value, path of the
\* argument "input")
Validate ==
    /\ ~in_result.called
    /\ \E reason \in is_valid_input_value(ValidationRegistry, in_type,
                        in_value, <<Segment_Name("input")>>) :
          in_result' = [called |-> TRUE, reason |-> reason]
    /\ UNCHANGED <<in_type, in_value, outside_validator>>

ValidatorNext == Validate

ValidatorSpec == ValidatorInit /\ [][ValidatorNext]_vars

\* ------------------------------------------------------------------------
\* Claims about the validator
\* ------------------------------------------------------------------------
\* str::contains
Contains(str, part) ==
    \E i \in 1..(Len(str) - Len(part) + 1) :
        SubSeq(str, i, i + Len(part) - 1) = part

\* value is valid for the type reference s, read off the type system: a
\* variable always, null for a nullable reference, a list element-wise (a
\* single value as a list of one), an Int literal for Int, a declared
\* literal for Color
RECURSIVE Conforms(_, _)
Conforms(s, value) ==
    \/ value.kind = "Variable"
    \/ CASE ends_with(s, "!") ->
              value.kind # "Null" /\ Conforms(SubSeq(s, 1, Len(s) - 1), value)
         [] starts_with(s, "[") ->
              \/ value.kind = "Null"
              \/ value.kind = "List" /\ \A i \in 1..Len(value.elems) :
                    Conforms(SubSeq(s, 2, Len(s) - 1), value.elems[i])
              \/ value.kind # "List" /\ Conforms(SubSeq(s, 2, Len(s) - 1), value)
         [] OTHER ->
              \/ value.kind = "Null"
              \/ s = "Int" /\ value.kind = "Int"
              \/ s = "Color" /\ value.kind = "Enum"
                    /\ value.name \in {"RED", "GREEN"}

\* an object value was validated against an input-object type
ObjectValidated ==
    /\ in_result.called
    /\ in_type \in {"MyInput", "Filter"}
    /\ in_value.kind = "Object"

InputFields == ValidationRegistry[in_type].input_fields
AllKeysDeclared == DOMAIN in_value.values \subseteq DOMAIN InputFields
UnknownKeys == DOMAIN in_value.values \ DOMAIN InputFields
PresentFields == DOMAIN InputFields \cap DOMAIN in_value.values
AbsentFields == DOMAIN InputFields \ DOMAIN in_value.values

PresentValid ==
    \A f \in PresentFields : Conforms(InputFields[f].ty, in_value.values[f])
PresentAccepted ==
    \A f \in PresentFields :
        InputFields[f].validator # None =>
            validator_is_valid(unwrap(InputFields[f].validator),
                               in_value.values[f]) = None
AbsentCovered ==
    \A f \in AbsentFields :
        Nullable(InputFields[f].ty) \/ InputFields[f].default_value # None

MentionsUnknownField ==
    /\ in_result.reason # None
    /\ \E k \in UnknownKeys :
          Contains(unwrap(in_result.reason), "unknown field \"" \o k \o "\"")

\* C19 as stated: no error when every key is declared, every present field
\* is valid for its type and every absent field is nullable or defaulted;
\* an error when a non-null field without default is absent; an error
\* mentioning unknown field "<key>" when a key is not declared.
C19_InputObjectShape ==
    ObjectValidated =>
        /\ (AllKeysDeclared /\ PresentValid /\ AbsentCovered) =>
              in_result.reason = None
        /\ ~AbsentCovered => in_result.reason # None
        /\ ~AllKeysDeclared => MentionsUnknownField

\* C19, amended: no error when, in addition, every present field is
\* accepted by its validator capability; an undeclared key always gives an
\* error, and the error mentions unknown field "<key>" of one such key when
\* no declared field is in error. MyInput: {} and {value: 88} give no
\* error, {bogus: 1} gives the unknown-field error.
C19_InputObjectShapeFirstFailure ==
    ObjectValidated =>
        /\ (AllKeysDeclared /\ PresentValid /\ PresentAccepted
              /\ AbsentCovered) => in_result.reason = None
        /\ ~AbsentCovered => in_result.reason # None
        /\ ~AllKeysDeclared =>
              /\ in_result.reason # None
              /\ (PresentValid /\ PresentAccepted /\ AbsentCovered) =>
                    MentionsUnknownField

\* C19 witness: {bogus: 1} was validated against MyInput
C19_Witness ==
    /\ in_type = "MyInput"
    /\ in_value = GqlValue_Object([k \in {"bogus"} |-> GqlValue_Int(1)])
    /\ in_result = [called |-> TRUE, reason |->
          Some("\"input\", unknown field \"bogus\" of type \"MyInput\"")]

\* only variables: a variable, a list of variables, or an object whose
\* values are all variables
OnlyVariables(value) ==
    \/ value.kind = "Variable"
    \/ /\ value.kind = "List"
       /\ unwrap_non_null(create(in_type)).kind = "List"
       /\ \A i \in 1..Len(value.elems) : value.elems[i].kind = "Variable"
    \/ /\ value.kind = "Object"
       /\ concrete_typename(in_type) \in {"MyInput", "Filter"}
       /\ \A k \in DOMAIN value.values : value.values[k].kind = "Variable"
       /\ DOMAIN value.values =
             DOMAIN ValidationRegistry[concrete_typename(in_type)].input_fields

\* C20: no error is reported on account of a variable: a variable is
\* accepted against every type reference at the top level, as an element
\* of a list and as the value of an input-object field, a field with a
\* validator capability included.
C20_VariablesAccepted ==
    (in_result.called /\ OnlyVariables(in_value)) => in_result.reason = None

\* a value that is neither null, nor a variable, nor an object was
\* validated against an input-object type
NonObjectValidated ==
    /\ in_result.called
    /\ in_type \in {"MyInput", "Filter"}
    /\ in_value.kind \notin {"Null", "Variable", "Object"}

\* C21: validating against an input-object type a value that is neither
\* null, nor a variable, nor an object (an integer, a string, an enum
\* literal) returns an error.
C21_NonObjectRejected ==
    NonObjectValidated => in_result.reason # None

\* the type reference is a list: TypeName::create gives List(element type)
ListRef == create(in_type).kind = "List"
ElemType == create(in_type).name

\* the positions of the elements that are not valid for the element type
InvalidElems ==
    { i \in 1..Len(in_value.elems) : ~Conforms(ElemType, in_value.elems[i]) }
LowestInvalid == CHOOSE i \in InvalidElems : \A j \in InvalidElems : i <= j

\* C24: against a list type reference a list value is valid exactly when
\* every element is valid for the element type; otherwise the error is the
\* one of the lowest-index invalid element, with that index (counted from
\* 0) in its path; a value that is not a list is validated directly
\* against the element type, under the same path.
C24_ListElementwise ==
    (in_result.called /\ ListRef /\ in_value.kind # "Variable") =>
        IF in_value.kind = "List"
        THEN /\ (in_result.reason = None) <=> (InvalidElems = {})
             /\ InvalidElems # {} =>
                   /\ in_result.reason \in
                         is_valid_input_value(ValidationRegistry, ElemType,
                             in_value.elems[LowestInvalid],
                             <<Segment_Name("input"),
                               Segment_Index(LowestInvalid - 1)>>)
                   /\ Contains(unwrap(in_result.reason),
                         "\"input." \o ToString(LowestInvalid - 1) \o "\"")
        ELSE in_result.reason \in
                is_valid_input_value(ValidationRegistry, ElemType, in_value,
                                     <<Segment_Name("input")>>)

\* C24 witness: [null, "x"] against [Int!] gave the error of element 0
C24_Witness ==
    /\ in_type = "[Int!]"
    /\ in_value = GqlValue_List(<<GqlValue_Null, GqlValue_String("x")>>)
    /\ in_result = [called |-> TRUE, reason |->
          Some("\"input.0\", expected type \"Int\"")]

\* C25: a null value is rejected only when the outermost wrapper of the
\* type reference is NonNull; against every nullable reference, named or
\* list, [Int!] included, null is accepted.
C25_NullOnlyUnderNonNull ==
    (in_result.called /\ in_value.kind = "Null") =>
        ((in_result.reason # None) <=> is_non_null(create(in_type)))

\* ========================================================================
\* Claims about the hooks, the failures of collect_fields and repeated
\* result keys (specification Spec)
\* ========================================================================
\* the hook call log[k] is answered later by a resolve_field_end call for
\* the same resolve id on the same extension
EndFollows(k) ==
    \E m \in (k + 1)..Len(log) :
        /\ log[m].ev = "resolve_field_end"
        /\ log[m].rid = log[k].rid
        /\ log[m].ext = log[k].ext

\* the resolver invocation log[k] comes after a resolve_field_start call
\* for the same resolve id on every active extension
StartPrecedes(k) ==
    \A e \in 1..Len(extensions) :
        \E m \in 1..(k - 1) :
            /\ log[m].ev = "resolve_field_start"
            /\ log[m].rid = log[k].rid
            /\ log[m].ext = extensions[e]

StartsAnswered ==
    \A k \in 1..Len(log) : log[k].ev = "resolve_field_start" => EndFollows(k)

\* C26: once do_resolve has returned, every resolve_field_start call is
\* followed by a resolve_field_end call for the same resolve id on the
\* same extension, also when the resolver returned an error or the task
\* was abandoned because a sibling failed; and every invocation of the
\* root's field resolver is preceded by the resolve_field_start calls.
C26_StartThenEnd ==
    /\ pc = "done" => StartsAnswered
    /\ \A k \in 1..Len(log) : log[k].ev = "resolve_field" => StartPrecedes(k)

\* collect_fields fails somewhere in the selection set sel of a root of
\* type root, read off the selection: the set is empty, or an item has a
\* directive whose evaluation fails, or a kept item is the spread of an
\* unknown fragment or leads to a selection set that fails
RECURSIVE SelFails(_, _)
SelFails(sel, root) ==
    \/ sel = <<>>
    \/ \E i \in 1..Len(sel) :
          \/ sel[i].dir = "error"
          \/ /\ sel[i].dir = "keep"
             /\ sel[i].kind = "FragmentSpread"
             /\ \/ sel[i].name \notin DOMAIN fragments
                \/ /\ sel[i].name \in DOMAIN fragments
                   /\ SelFails(fragments[sel[i].name], root)
          \/ /\ sel[i].dir = "keep"
             /\ sel[i].kind = "InlineFragment"
             /\ sel[i].cond \in {NoName, root}
             /\ SelFails(sel[i].sel, root)

\* a resolver invocation or a hook call for a task below the path trail
Below(trail) ==
    { k \in 1..Len(log) :
        /\ Len(log[k].path) > Len(trail)
        /\ SubSeq(log[k].path, 1, Len(trail)) = trail }

\* C27: when collect_fields fails anywhere in a selection set, no field
\* resolver and no extension hook of that selection set is ever invoked:
\* for the set given to do_resolve the log stays empty and the tasks
\* collected before the failing item are never started; for the set of an
\* object field nothing is invoked below the field.
C27_NoTaskStartedOnCollectFailure ==
    /\ SelFails(items, RootType) =>
          /\ log = <<>>
          /\ \A t \in all_tasks(futures) : t.fut = "field" => t.st = "new"
          /\ pc = "done" => result.status = "err"
    /\ \A i \in 1..Len(futures) :
          (futures[i].fut = "field"
             /\ resolver(futures[i].root, futures[i].field.name) = "object"
             /\ SelFails(futures[i].field.sel, "MyObj")) =>
              /\ Below(futures[i].path) = {}
              /\ futures[i].sub = <<>>
              /\ futures[i].st \in {"new", "err"}

\* C27 witness: slowOk was collected, the directive of the next item failed
\* to evaluate, and do_resolve returned the error with slowOk never started
\* although extensions were active
C27_Witness ==
    /\ pc = "done"
    /\ extensions # <<>>
    /\ Len(items) = 2
    /\ items[1] = PlainField("slowOk")
    /\ items[2] = Field("a", NoName, "error", <<>>)
    /\ result.status = "err"
    /\ Len(futures) = 1 /\ futures[1].st = "new" /\ futures[1].dropped
    /\ log = <<>>

\* the number of invocations of the root's field resolver for the task t
Invocations(t) ==
    Cardinality({ k \in 1..Len(log) :
                    log[k].ev = "resolve_field" /\ log[k].rid = t.rid })

\* the object entries holds every result key of the tasks fs once, with
\* the value of the last task of fs that has the key
LaterTaskWins(fs, entries) ==
    /\ { entries[k][1] : k \in 1..Len(entries) } =
          { fs[i].key : i \in 1..Len(fs) }
    /\ \A k, m \in 1..Len(entries) : entries[k][1] = entries[m][1] => k = m
    /\ \A k \in 1..Len(entries) :
          entries[k][2] = LastValue(fs, entries[k][1])

\* two tasks of fs yield the same result key
RepeatedKey(fs) ==
    \E i, j \in 1..Len(fs) : i < j /\ fs[i].key = fs[j].key

\* C28: when do_resolve returns an object, the root's field resolver was
\* invoked once for every field task, also for the tasks that yield the
\* same result key, each task under a resolve id of its own; the object
\* holds every key once, with the value of the later-produced task. The
\* same holds for the object of a nested selection set.
C28_RepeatedKeyLaterWins ==
    (pc = "done" /\ result.status = "ok") =>
        /\ LaterTaskWins(futures, result.value.entries)
        /\ \A i \in 1..Len(futures) :
              /\ futures[i].fut = "field" => Invocations(futures[i]) = 1
              /\ \A j \in 1..Len(futures) :
                    futures[i].rid = futures[j].rid => i = j
              /\ futures[i].sub # <<>> =>
                    LaterTaskWins(futures[i].sub, futures[i].value.entries)

\* C28 witness: the field slowOk and then the field a under the alias
\* slowOk were resolved, and the object holds the key slowOk once, with
\* the value of a
C28_Witness ==
    /\ pc = "done"
    /\ items = <<PlainField("slowOk"), Field("a", "slowOk", "keep", <<>>)>>
    /\ RepeatedKey(futures)
    /\ Invocations(futures[1]) = 1 /\ Invocations(futures[2]) = 1
    /\ result = Ok(Object(<< <<"slowOk", Scalar("a")>> >>))

\* ========================================================================
\* The keys of the type map (specification RegistrySpec)
\* ========================================================================
\* the Rust types whose builder create_type has run to the end
Built ==
    { T \in RustTypes :
        \E n \in DOMAIN invoked : \E i \in 1..Len(invoked[n]) :
            invoked[n][i] = T }

\* C29: once no registration is in progress, every entry of the type map
\* is stored under the name recorded inside the stored type, and the name
\* declared by every type that was built is a key of the map, EmptyMutation
\* and EmptySubscription registered in the same schema included.
C29_KeyIsTypeName ==
    reg_stack = <<>> =>
        /\ \A k \in DOMAIN types : types[k].name = k
        /\ \A T \in Built : contains_key(types, builder(T).name)

\* ========================================================================
\* Guards and the _entities resolver (src/tests/guard.rs,
\* src/async-graphql-derive/src/utils.rs parse_guards). The code the derive
\* macros generate around a resolver is followed as the tests observe it.
\* ========================================================================
\* bounds of the explored inputs: guards in one guard(...) list, arguments
\* of one attribute, and representations of one _entities query
MaxGuards == 2
MaxArgs == 2
MaxReps == 2

\* struct RoleGuard { role }, struct UserGuard { username }
RoleGuard(role) == [guard |-> "RoleGuard", param |-> role]
UserGuard(username) == [guard |-> "UserGuard", param |-> username]

\* GuardExt::and(a, b): the guard And(a, b)
GuardExt_and(a, b) == [guard |-> "And", first |-> a, second |-> b]

\* Guard::check(&self, ctx) as an Option: None for Ok(()), Some(message)
\* for Err(message). And(a, b) checks a and, when a passes, b.
RECURSIVE check(_, _)
check(g, data) ==
    CASE g.guard = "RoleGuard" ->
            IF data.role = Some(g.param) THEN None ELSE Some("Forbidden")
      [] g.guard = "UserGuard" ->
            IF data.username = Some(g.param) THEN None ELSE Some("Forbidden")
      [] g.guard = "And" ->
            IF check(g.first, data) # None THEN check(g.first, data)
            ELSE check(g.second, data)

\* parse_guards: the loop over the items of guard(...), from item i on;
\* the first guard alone, every later one as GuardExt::and(guard, guards)
RECURSIVE parse_guards_items(_, _, _)
parse_guards_items(ls, i, guards) ==
    IF i > Len(ls) THEN guards
    ELSE parse_guards_items(ls, i + 1,
            IF guards = None THEN Some(ls[i])
            ELSE Some(GuardExt_and(ls[i], unwrap(guards))))

\* the arguments of an attribute #[field(..)] or #[entity(..)]: a list
\* path(nested, ..), or name = value
Meta_List(path, nested) == [meta |-> "List", path |-> path, nested |-> nested]
Meta_NameValue(path) == [meta |-> "NameValue", path |-> path, nested |-> <<>>]

\* parse_guards: the loop over the arguments, from argument i on; it
\* returns at the first list guard(...), with the guards of that list, and
\* never looks at the arguments after it
RECURSIVE parse_guards_args(_, _)
parse_guards_args(args, i) ==
    IF i > Len(args) THEN None
    ELSE IF args[i].meta = "List" /\ args[i].path = "guard"
         THEN parse_guards_items(args[i].nested, 1, None)
         ELSE parse_guards_args(args, i + 1)

parse_guards(args) == parse_guards_args(args, 1)

\* the check the generated code runs before the resolver body
guard_check(target, data) ==
    IF parse_guards(target.args) = None THEN None
    ELSE check(unwrap(parse_guards(target.args)), data)

\* FieldError { err: message } with and without the path of the field;
\* the name of the error record holds the message
into_error_with_path(msg, trail) ==
    GqlError("FieldError", msg, NoName, SomePath(trail))
into_error(msg) == GqlError("FieldError", msg, NoName, NoPath)

Executed(status, error, list, bodies) ==
    [status |-> status, error |-> error, list |-> list, bodies |-> bodies]

\* a guarded field or subscription field named name: the guard, then the
\* resolver body
resolve_guarded(name, target, data) ==
    IF guard_check(target, data) # None
    THEN Executed("err",
             into_error_with_path(unwrap(guard_check(target, data)), <<name>>),
             <<>>, 0)
    ELSE Executed("ok", NoError, <<>>, 1)

\* find_entity for one representation: the finder of MyObj behind its
\* guard; any other __typename has no finder
find_entity(typename, target, data) ==
    IF typename # "MyObj"
    THEN Executed("err", GqlError("EntityNotFound", NoName, NoName, NoPath),
                  <<>>, 0)
    ELSE IF guard_check(target, data) # None
    THEN Executed("err", into_error(unwrap(guard_check(target, data))),
                  <<>>, 0)
    ELSE Executed("ok", NoError, <<typename>>, 1)

\* the resolver of _entities: for item in representations
\*     res.push(self.find_entity(..).await?)
RECURSIVE entities(_, _, _, _)
entities(target, data, i, acc) ==
    IF i > Len(target.reps) THEN acc
    ELSE LET r == find_entity(target.reps[i], target, data)
         IN  IF r.status = "err"
             THEN Executed("err", r.error, <<>>, acc.bodies)
             ELSE entities(target, data, i + 1,
                      Executed("ok", NoError, acc.list \o r.list,
                               acc.bodies + r.bodies))

\* ------------------------------------------------------------------------
\* Inputs and actions
\* ------------------------------------------------------------------------
GuardLists ==
    SeqsUpTo({RoleGuard("Admin"), UserGuard("test")}, MaxGuards)

ContextData ==
    [role : {None, Some("Admin"), Some("Guest")},
     username : {None, Some("test"), Some("test1")}]

\* an attribute has a name, guard lists, or both, in any order
AttrArgs ==
    {Meta_NameValue("name")} \cup { Meta_List("guard", ls) : ls \in GuardLists }

ArgLists == SeqsUpTo(AttrArgs, MaxArgs)

Targets ==
    [kind : {"field", "subscription"}, args : ArgLists, reps : {<<>>}]
        \cup [kind : {"entity"}, args : ArgLists,
              reps : SeqsUpTo({"MyObj", "Ghost"}, MaxReps)]

GuardInit ==
    /\ ResolverIdle
    /\ TypeRefIdle
    /\ CacheIdle
    /\ RegistryIdle
    /\ ValidatorIdle
    /\ WsIdle
    /\ gd_data \in ContextData
    /\ gd_target \in Targets
    /\ gd_result = NotExecuted

\* the query { value }
ResolveField ==
    /\ gd_result.status = "none"
    /\ gd_target.kind = "field"
    /\ gd_result' = resolve_guarded("value", gd_target, gd_data)
    /\ UNCHANGED <<gd_data, gd_target, outside_guard>>

\* create_subscription_stream("subscription { values }")
CreateFieldStream ==
    /\ gd_result.status = "none"
    /\ gd_target.kind = "subscription"
    /\ gd_result' = resolve_guarded("values", gd_target, gd_data)
    /\ UNCHANGED <<gd_data, gd_target, outside_guard>>

\* the query { _entities(representations: [...]) { ... } }
Entities ==
    /\ gd_result.status = "none"
    /\ gd_target.kind = "entity"
    /\ gd_result' = entities(gd_target, gd_data, 1,
                             Executed("ok", NoError, <<>>, 0))
    /\ UNCHANGED <<gd_data, gd_target, outside_guard>>

GuardNext == ResolveField \/ CreateFieldStream \/ Entities

GuardSpec == GuardInit /\ [][GuardNext]_vars

\* ------------------------------------------------------------------------
\* Claims about guards and entities
\* ------------------------------------------------------------------------
\* the guards declared on the target: those of every guard(...) list of
\* its attribute, in the order of the text
RECURSIVE declared_guards(_, _)
declared_guards(args, i) ==
    IF i > Len(args) THEN <<>>
    ELSE (IF args[i].meta = "List" /\ args[i].path = "guard"
          THEN args[i].nested ELSE <<>>) \o declared_guards(args, i + 1)

Declared == declared_guards(gd_target.args, 1)

\* the check of the i-th guard declared on the target succeeds
Passes(i) == check(Declared[i], gd_data) = None

\* the lookup of the i-th representation fails: no finder, or the guard of
\* the finder refuses
LookupFails(i) ==
    \/ gd_target.reps[i] # "MyObj"
    \/ guard_check(gd_target, gd_data) # None

\* C22: in an _entities query a representation whose __typename is unknown
\* or whose lookup fails gives an error for that item inside the returned
\* list; the request as a whole does not fail and the other
\* representations are resolved.
C22_EntityErrorsPerItem ==
    (gd_result.status # "none" /\ gd_target.kind = "entity") =>
        /\ gd_result.status = "ok"
        /\ Len(gd_result.list) = Len(gd_target.reps)
        /\ \A i \in 1..Len(gd_target.reps) :
              gd_result.list[i] =
                  IF LookupFails(i) THEN "error" ELSE gd_target.reps[i]
        /\ gd_result.bodies =
              Cardinality({ i \in 1..Len(gd_target.reps) : ~LookupFails(i) })

\* the guarded resolver is reached by the query: always for a field and a
\* subscription field, for an entity finder when the first representation
\* is one of its type
FinderReached ==
    \/ gd_target.kind \in {"field", "subscription"}
    \/ /\ gd_target.kind = "entity"
       /\ gd_target.reps # <<>>
       /\ gd_target.reps[1] = "MyObj"

\* C23: a field, entity finder or subscription field declared with guards
\* is resolved only when the check of every guard succeeds; when a guard
\* fails, whatever the other guards do, the resolver body does not run
\* and the query fails with a FieldError carrying the message of a
\* failing guard. It fails for guards declared in a second guard(...)
\* list, which parse_guards never reads.
C23_GuardsAllMustPass ==
    (gd_result.status # "none" /\ Declared # <<>> /\ FinderReached) =>
        IF \A i \in 1..Len(Declared) : Passes(i)
        THEN /\ gd_result.bodies >= 1
             /\ gd_target.kind # "entity" => gd_result.status = "ok"
        ELSE /\ gd_result.bodies = 0
             /\ gd_result.status = "err"
             /\ gd_result.error.err = "FieldError"
             /\ \E i \in 1..Len(Declared) :
                   /\ ~Passes(i)
                   /\ gd_result.error.name = unwrap(check(Declared[i], gd_data))

\* ========================================================================
\* The websocket forwarding loop (src/async-graphql-warp/src/lib.rs,
\* graphql_subscription and graphql_subscription_with_data: the same loop)
\* ========================================================================
\* bound of the explored inputs: frames of the client, and messages of
\* the subscription connection
MaxFrames == 2

\* warp::ws::Message: a text frame, a frame that is not text
Message_text(payload) == [kind |-> "text", payload |-> payload]
Message_binary == [kind |-> "binary", payload |-> ""]
\* Some(Err(_)) of the client's stream
RxError == [kind |-> "error", payload |-> ""]

\* msg.is_text(), msg.as_bytes()
is_text(msg) == msg.kind = "text"
as_bytes(msg) == msg.payload

ClientFrames == {Message_text("c1"), Message_text("c2"), Message_binary, RxError}
ConnMessages == {"s1", "s2"}

WsInit ==
    /\ ResolverIdle
    /\ TypeRefIdle
    /\ CacheIdle
    /\ RegistryIdle
    /\ ValidatorIdle
    /\ GuardIdle
    /\ \E frames \in SeqsUpTo(ClientFrames, MaxFrames) :
          ws_client = [frames |-> frames, pos |-> 0, open |-> TRUE,
                       done |-> FALSE]
    /\ \E msgs \in SeqsUpTo(ConnMessages, MaxFrames) :
          ws_conn = [msgs |-> msgs, pos |-> 0, open |-> TRUE]
    /\ ws_tx = <<>>
    /\ ws_stx = <<>>
    /\ ws_pc = "select"

\* bytes = srx.next() => Some(bytes): the loop takes the message and
\* enters tx.send(Message::text(..)).await
SrxSome ==
    /\ ws_pc = "select"
    /\ ws_conn.pos < Len(ws_conn.msgs)
    /\ ws_conn' = [ws_conn EXCEPT !.pos = @ + 1]
    /\ ws_pc' = "tx.send"
    /\ UNCHANGED <<ws_client, ws_tx, ws_stx, outside_ws>>

\* tx.send(..).await completes: the sink of the websocket has taken the
\* frame and the loop goes round, or the send failed and the loop returns.
\* Until the sink is ready the loop stays inside the await, where neither
\* stream is polled.
TxSend ==
    /\ ws_pc = "tx.send"
    /\ \E is_err \in BOOLEAN :
          IF is_err
          THEN ws_pc' = "returned" /\ UNCHANGED ws_tx
          ELSE /\ ws_tx' = Append(ws_tx,
                      Message_text(ws_conn.msgs[ws_conn.pos]))
               /\ ws_pc' = "select"
    /\ UNCHANGED <<ws_client, ws_conn, ws_stx, outside_ws>>

\* bytes = srx.next() => None: return
SrxNone ==
    /\ ws_pc = "select"
    /\ ws_conn.pos = Len(ws_conn.msgs)
    /\ ~ws_conn.open
    /\ ws_pc' = "returned"
    /\ UNCHANGED <<ws_client, ws_conn, ws_tx, ws_stx, outside_ws>>

\* msg = rx.next() => Some(_): with a text frame of Some(Ok(msg)) the loop
\* enters stx.send(..).await; any other frame and Some(Err(_)) are passed
\* over
RxSome ==
    /\ ws_pc = "select"
    /\ ws_client.pos < Len(ws_client.frames)
    /\ ws_client' = [ws_client EXCEPT !.pos = @ + 1]
    /\ LET msg == ws_client.frames[ws_client.pos + 1]
       IN  IF is_text(msg)
           THEN ws_pc' = "stx.send"
           ELSE UNCHANGED ws_pc
    /\ UNCHANGED <<ws_conn, ws_tx, ws_stx, outside_ws>>

\* stx.send(Bytes::copy_from_slice(msg.as_bytes())).await completes: the
\* connection has taken the bytes, or the send failed and the loop returns
StxSend ==
    /\ ws_pc = "stx.send"
    /\ \E is_err \in BOOLEAN :
          IF is_err
          THEN ws_pc' = "returned" /\ UNCHANGED ws_stx
          ELSE /\ ws_stx' = Append(ws_stx,
                      as_bytes(ws_client.frames[ws_client.pos]))
               /\ ws_pc' = "select"
    /\ UNCHANGED <<ws_client, ws_conn, ws_tx, outside_ws>>

\* msg = rx.next() => None: nothing is done and the loop goes on; rx is
\* fused, so select! does not poll it again
RxNone ==
    /\ ws_pc = "select"
    /\ ws_client.pos = Len(ws_client.frames)
    /\ ~ws_client.open
    /\ ~ws_client.done
    /\ ws_client' = [ws_client EXCEPT !.done = TRUE]
    /\ UNCHANGED <<ws_conn, ws_tx, ws_stx, ws_pc, outside_ws>>

\* the client closes the websocket: after the frames under way its
\* stream ends
ClientClose ==
    /\ ws_pc # "idle"
    /\ ws_client.open
    /\ ws_client' = [ws_client EXCEPT !.open = FALSE]
    /\ UNCHANGED <<ws_conn, ws_tx, ws_stx, ws_pc, outside_ws>>

\* the subscription connection closes: after the messages under way its
\* stream ends
ConnClose ==
    /\ ws_pc # "idle"
    /\ ws_conn.open
    /\ ws_conn' = [ws_conn EXCEPT !.open = FALSE]
    /\ UNCHANGED <<ws_client, ws_tx, ws_stx, ws_pc, outside_ws>>

WsNext ==
    \/ SrxSome
    \/ TxSend
    \/ SrxNone
    \/ RxSome
    \/ StxSend
    \/ RxNone
    \/ ClientClose
    \/ ConnClose

WsSpec == WsInit /\ [][WsNext]_vars

\* the loop is run by the executor: a branch of select! that stays ready
\* is taken. The client and the connection close when they please, and a
\* sink takes what is sent to it when it pleases: nothing in the code makes
\* the await of a send complete.
WsLive ==
    WsSpec /\ WF_vars(SrxSome) /\ WF_vars(SrxNone) /\ WF_vars(RxSome)
           /\ WF_vars(RxNone)

\* ------------------------------------------------------------------------
\* Claims about the forwarding loop
\* ------------------------------------------------------------------------
\* the text payloads among the first n frames of the client
RECURSIVE TextPayloads(_, _)
TextPayloads(frames, n) ==
    IF n = 0 THEN <<>>
    ELSE IF is_text(frames[n])
    THEN Append(TextPayloads(frames, n - 1), as_bytes(frames[n]))
    ELSE TextPayloads(frames, n - 1)

\* the messages srx has yielded were sent to the client as text frames,
\* in the order of their production; only the last one may be missing:
\* its send is under way, or it failed and the loop has returned
TxInOrder ==
    \E n \in 0..ws_conn.pos :
        /\ ws_tx = [i \in 1..n |-> Message_text(ws_conn.msgs[i])]
        /\ \/ n = ws_conn.pos
           \/ n = ws_conn.pos - 1 /\ ws_pc \in {"tx.send", "returned"}

\* the text frames rx has yielded were sent to the connection in the
\* order of their arrival, with the same exception
StxInOrder ==
    \/ ws_stx = TextPayloads(ws_client.frames, ws_client.pos)
    \/ /\ ws_pc \in {"stx.send", "returned"}
       /\ ws_client.pos > 0
       /\ ws_stx = TextPayloads(ws_client.frames, ws_client.pos - 1)

\* the stream of the client, of the connection, has yielded None
ClientStreamEnded == ws_client.done
ConnStreamEnded ==
    ws_pc # "idle" /\ ~ws_conn.open /\ ws_conn.pos = Len(ws_conn.msgs)

\* C30: the loop sends every message of the connection to the client as a
\* text frame in production order, forwards every text frame of the
\* client to the connection in arrival order, and eventually returns once
\* the client's stream has ended or the connection's stream has ended (a
\* failing send returns on the spot).
C30_ForwardsAndTerminates ==
    /\ [](TxInOrder /\ StxInOrder)
    /\ (ClientStreamEnded \/ ConnStreamEnded) ~> (ws_pc = "returned")

====
